---- MODULE Spec2Model ----
(***************************************************************************)
(* A model of qxmlcodegen.py: the schema-model builder (XSD tree -> IR),   *)
(* the declaration and reader emitters, the driver xmlcodegen, and the     *)
(* behaviour of the emitted C++ readers over XML documents.                *)
(*                                                                         *)
(* An XSD node is [tag, a, kids]: the canonical tag ("xs:element"), the    *)
(* attribute mapping (a function from attribute names to strings; an       *)
(* annotation attribute has the key "qxg:<attr>") and the child nodes.     *)
(* A raised Python exception is the value Err(msg).                        *)
(***************************************************************************)
EXTENDS Integers, Sequences, FiniteSets, TLC

VARIABLES
    \* ---- the emitted reader of one record, running over one element
    content,          \* the SequenceContentDef the reader was emitted from
    doc,              \* local names of the element's children, in order
    keepElementOpen,  \* the reader's third argument
    pc,               \* where the run stands
    slot,             \* index of the Sequence slot whose code runs next
    pos,              \* child the pull-parser stands on (0: the element itself)
    hasNext,          \* the emitted local of that name
    data,             \* member -> values held (<<>>: default/absent)
    usedElements,     \* _usedElements of an All block
    err,              \* "" or the helper that threw
    errPos,           \* parser position when it threw
    callers,          \* the readers waiting for the one that runs to return
    read_methods,          \* the emitted reader methods: record name -> base, content
    reading,          \* name of the record whose reader runs ("": none by name)
    tokens,           \* raw tokens before the first child or the end tag, unread
    contentText,      \* the emitted local of that name: the text pieces appended
    \* ---- the attribute phase of that reader
    members,          \* the record's MemberDef list
    simple_types,     \* the BasicTypeDefs convertData is specialised for
    attribs,          \* the element's attributes: name -> text
    attr_i,           \* index of the attribute read next
    \* ---- the generator: runs of XmlCodeGenerator.xmlcodegen in one process
    schema,           \* the children of the xs:schema root, in document order
    gpc,              \* where the run stands: idle, loop, src, done, failed
    child_i,          \* index of the child the top-level loop handles next
    type_defs,        \* the local of that name
    root_elements,    \* the local of that name
    xs_type_map,      \* XmlCodeGenerator.xs_type_map, a class attribute
    ns_map,           \* XmlCodeGenerator.ns_map, a class attribute
    methods,          \* self.methods
    files,            \* run -> the files at that run's hdr_path and src_path
    run,              \* number of the run in this process
    gerr,             \* "" or the exception that ended the run
    args,             \* the command line: xsd path, --verify, --skip-verify
    config,           \* self.config
    stderr            \* the lines printed to sys.stderr

readerVars == <<content, doc, keepElementOpen, pc, slot, pos, hasNext, data,
                usedElements, err, errPos, callers, read_methods, reading,
                tokens, contentText>>

attrVars == <<members, simple_types, attribs, attr_i>>

genVars == <<schema, gpc, child_i, type_defs, root_elements, xs_type_map, ns_map,
             methods, files, run, gerr, args, config, stderr>>

vars == <<readerVars, attrVars, genVars>>

-----------------------------------------------------------------------------
(* Bounds of the model *)

MaxOccurs == 3      \* largest minOccurs / finite maxOccurs drawn
MaxChildren == 4    \* longest document (children of the element read)
MaxRuns == 2        \* runs of xmlcodegen in one process
MaxSlots == 2       \* most slots of a generated xs:sequence
MaxGroupRefs == 2   \* most xs:attributeGroup references of a generated type
MaxSchema == 3      \* most top-level children of a generated schema

-----------------------------------------------------------------------------
(* Values and small helpers *)

Err(m) == [kind |-> "error", msg |-> m]
IsErr(x) == x.kind = "error"

Node(tag, attrs, kids) == [tag |-> tag, a |-> attrs, kids |-> kids]

\* int(): decimal strings as Python's int() reads them
IntStr == <<"0", "1", "2", "3", "4", "5", "6">>
ParseInt(s) == (CHOOSE i \in 1..Len(IntStr) : IntStr[i] = s) - 1

\* str.lower() on the flag spellings that occur
Lower(s) == IF s \in {"True", "TRUE"} THEN "true"
            ELSE IF s \in {"False", "FALSE"} THEN "false"
            ELSE IF s \in {"Public", "PUBLIC"} THEN "public"
            ELSE s

\* name[0].lower() + name[1:]
LowerFirst(s) == CASE s = "X" -> "x"
                   [] s = "A" -> "a"
                   [] s = "B" -> "b"
                   [] s = "Item" -> "item"
                   [] s = "T" -> "t"
                   [] s = "S" -> "s"
                   [] OTHER -> s

\* node.find(tag): index of the first child with that tag, 0 for None
Find(node, tag) ==
    IF \E i \in 1..Len(node.kids) : node.kids[i].tag = tag
    THEN CHOOSE i \in 1..Len(node.kids) :
            /\ node.kids[i].tag = tag
            /\ \A j \in 1..(i - 1) : node.kids[j].tag # tag
    ELSE 0

\* node.findall(tag)
FindAll(node, tag) == SelectSeq(node.kids, LAMBDA k : k.tag = tag)

XsTypeMap ==
    [t \in {"xs:string", "xs:normalizedString", "xs:token", "xs:language",
            "xs:decimal", "xs:double", "xs:float", "xs:integer", "xs:byte",
            "xs:short", "xs:int", "xs:long", "xs:unsignedByte",
            "xs:unsignedShort", "xs:unsignedInt", "xs:unsignedLong",
            "xs:boolean", "xs:date", "xs:time", "xs:dateTime",
            "xs:base64Binary", "xs:hexBinary", "xs:anyURI", ""} |->
        CASE t \in {"xs:string", "xs:normalizedString", "xs:token"} -> "QString"
          [] t = "xs:language" -> "QLocale"
          [] t = "xs:decimal" -> "qreal"
          [] t = "xs:double" -> "double"
          [] t = "xs:float" -> "float"
          [] t = "xs:integer" -> "int"
          [] t = "xs:byte" -> "qint8"
          [] t = "xs:short" -> "qint16"
          [] t = "xs:int" -> "qint32"
          [] t = "xs:long" -> "qint64"
          [] t = "xs:unsignedByte" -> "quint8"
          [] t = "xs:unsignedShort" -> "quint16"
          [] t = "xs:unsignedInt" -> "quint32"
          [] t = "xs:unsignedLong" -> "quint64"
          [] t = "xs:boolean" -> "bool"
          [] t = "xs:date" -> "QDate"
          [] t = "xs:time" -> "QTime"
          [] t = "xs:dateTime" -> "QDateTime"
          [] t \in {"xs:base64Binary", "xs:hexBinary"} -> "QByteArray"
          [] t = "xs:anyURI" -> "QUrl"
          [] OTHER -> ""]

-----------------------------------------------------------------------------
(* The schema-model builder *)

read_qxg(node, attr, default) ==
    IF ("qxg:" \o attr) \in DOMAIN node.a THEN node.a["qxg:" \o attr] ELSE default

\* read_qxg(..., map_type=True); a default missing from the map is a KeyError
read_qxg_mapped(node, attr, default, tmap) ==
    IF ("qxg:" \o attr) \in DOMAIN node.a THEN node.a["qxg:" \o attr]
    ELSE IF default \in DOMAIN tmap THEN tmap[default]
    ELSE "<KeyError>"

read_occurs(node) ==
    LET min_occurs == IF "minOccurs" \in DOMAIN node.a
                      THEN ParseInt(node.a["minOccurs"]) ELSE 1
        max_occurs == IF "maxOccurs" \in DOMAIN node.a
                      THEN (IF node.a["maxOccurs"] = "unbounded" THEN -1
                            ELSE ParseInt(node.a["maxOccurs"]))
                      ELSE 1
    IN  <<min_occurs, max_occurs>>

is_single(elem) == elem.min = 1 /\ elem.max = 1
is_optional(elem) == elem.min = 0 /\ elem.max = 1

NoMethod == [method |-> "", type_key |-> ""]

\* the method annotation of read_type_content; meths is the list of QxgMethod
MethodInfo(node, meths) ==
    LET method_mem == read_qxg(node, "method", "")
        hits == SelectSeq(meths, LAMBDA m : m.name = method_mem)
    IN  IF method_mem = "" THEN NoMethod
        ELSE [method |-> method_mem,
              type_key |-> IF Len(hits) = 0 THEN "" ELSE hits[Len(hits)].type_key]

read_type_content(node, allow_inherit, allow_unnamed, tmap, meths) ==
    LET nstag == node.tag
        inherit_mem == read_qxg(node, "inherit", "")
        inherit == inherit_mem # "" /\ Lower(inherit_mem) = "true"
        minfo == MethodInfo(node, meths)
        etype == node.a["type"]
        basic == Lower(read_qxg(node, "basicType", "false")) = "true"
        gmember == read_qxg(node, "member", "")
    IN  IF inherit_mem # "" /\ ~allow_inherit
        THEN Err("qxg:inherit is not allowed in the current scope")
        ELSE IF nstag = "xs:group" /\ gmember = "" /\ ~inherit /\ ~allow_unnamed
        THEN Err("A xs:group must have qxg:member or qxg:inherit")
        ELSE IF nstag \notin {"xs:element", "xs:group"}
        THEN Err("UNREACHABLE")
        ELSE IF minfo.method # "" /\ minfo.type_key = ""
        THEN Err("qxg:method was not declared beforehand")
        ELSE IF nstag = "xs:element"
        THEN [kind |-> "type", is_group |-> FALSE,
              name |-> node.a["name"],
              member |-> read_qxg(node, "member", LowerFirst(node.a["name"])),
              type_key |-> IF ~basic /\ etype \in DOMAIN tmap
                           THEN tmap[etype] ELSE etype,
              inherit |-> inherit,
              is_basic_type |-> basic \/ etype \in DOMAIN tmap,
              method |-> minfo]
        ELSE [kind |-> "type", is_group |-> TRUE,
              name |-> "",
              member |-> gmember,
              type_key |-> node.a["ref"],
              inherit |-> inherit,
              is_basic_type |-> FALSE,
              method |-> minfo]

RECURSIVE ChoiceLoop(_, _, _, _, _, _)
RECURSIVE ChoiceStep(_, _, _, _, _, _, _)
RECURSIVE read_choice_content(_, _, _, _)
RECURSIVE read_choice_content_NoChecks(_, _, _, _)

\* the for loop of read_choice_content from child i on, choices read so far
ChoiceLoop(kids, i, choice, allow_unnamed, tmap, meths) ==
    IF i > Len(kids) THEN choice
    ELSE ChoiceStep(kids, i, choice,
            IF kids[i].tag = "xs:choice"
            THEN read_choice_content(kids[i], FALSE, tmap, meths)
            ELSE IF kids[i].tag = "xs:element"
            THEN read_type_content(kids[i], FALSE, allow_unnamed, tmap, meths)
            ELSE Err("Unsupported element within a xs:choice"),
            allow_unnamed, tmap, meths)

\* the rest of one iteration, sub being what the child was read as
ChoiceStep(kids, i, choice, sub, allow_unnamed, tmap, meths) ==
    IF IsErr(sub) THEN sub
    ELSE ChoiceLoop(kids, i + 1,
            [choice EXCEPT !.choices =
                IF sub.kind = "choice" THEN @ \o sub.choices
                ELSE Append(@, sub)],
            allow_unnamed, tmap, meths)

\* mutant: neither the unordered nor the member check
read_choice_content_NoChecks(node, allow_unordered, tmap, meths) ==
    LET unordered == Lower(read_qxg(node, "unordered", "false")) = "true"
        member == read_qxg(node, "member", "")
    IN  ChoiceLoop(node.kids, 1,
                [kind |-> "choice", choices |-> <<>>,
                 unordered |-> unordered, member |-> member],
                ~unordered, tmap, meths)

read_choice_content(node, allow_unordered, tmap, meths) ==
    LET unordered == Lower(read_qxg(node, "unordered", "false")) = "true"
        member == read_qxg(node, "member", "")
    IN  IF unordered /\ ~allow_unordered
        THEN Err("qxg:unordered is only allowed for choices in a xs:sequence")
        ELSE IF member = "" /\ ~unordered
        THEN Err("A xs:choice must have an explicitly set qxg:member")
        ELSE ChoiceLoop(node.kids, 1,
                [kind |-> "choice", choices |-> <<>>,
                 unordered |-> unordered, member |-> member],
                ~unordered, tmap, meths)

RECURSIVE AllLoop(_, _, _, _, _)
RECURSIVE AllStep(_, _, _, _, _, _, _)
RECURSIVE AllStep_AnyOccurs(_, _, _, _, _, _, _)

\* the for loop of read_all_content from child i on
AllLoop(kids, i, allc, tmap, meths) ==
    IF i > Len(kids) THEN allc
    ELSE AllStep(kids, i, allc, read_occurs(kids[i]),
            IF kids[i].tag = "xs:choice"
            THEN read_choice_content(kids[i], FALSE, tmap, meths)
            ELSE IF kids[i].tag = "xs:element"
            THEN read_type_content(kids[i], FALSE, FALSE, tmap, meths)
            ELSE Err("Unsupported element within a xs:all"),
            tmap, meths)

\* mutant: no check of the occurrence of a child
AllStep_AnyOccurs(kids, i, allc, occ, sub, tmap, meths) ==
    IF IsErr(sub) THEN sub
    ELSE AllLoop(kids, i + 1,
            [allc EXCEPT !.elements =
                Append(@, [optional |-> occ[1] = 0, element |-> sub])],
            tmap, meths)

\* the rest of one iteration, sub being what the child was read as
AllStep(kids, i, allc, occ, sub, tmap, meths) ==
    IF occ[1] > 1 \/ occ[2] # 1
    THEN Err("Invalid occurrences on element within xs:all")
    ELSE IF IsErr(sub) THEN sub
    ELSE AllLoop(kids, i + 1,
            [allc EXCEPT !.elements =
                Append(@, [optional |-> occ[1] = 0, element |-> sub])],
            tmap, meths)

read_all_content(node, tmap, meths) ==
    AllLoop(node.kids, 1, [kind |-> "all", elements |-> <<>>], tmap, meths)

RECURSIVE SequenceLoop(_, _, _, _, _)
RECURSIVE SequenceChild(_, _, _, _)
RECURSIVE SequenceChild_InheritAnywhere(_, _, _, _)
RECURSIVE SequenceStep(_, _, _, _, _, _, _)
RECURSIVE SequenceStep_NestedFirst(_, _, _, _, _, _, _)
RECURSIVE read_sequence_content(_, _, _)

\* the for loop of read_sequence_content from child i on
SequenceLoop(kids, i, sequence, tmap, meths) ==
    IF i > Len(kids) THEN sequence
    ELSE SequenceStep(kids, i, sequence,
            [min |-> read_occurs(kids[i])[1], max |-> read_occurs(kids[i])[2]],
            SequenceChild(kids[i],
                [min |-> read_occurs(kids[i])[1], max |-> read_occurs(kids[i])[2]],
                tmap, meths),
            tmap, meths)

\* mutant: qxg:inherit is allowed on a child whatever its occurrence
SequenceChild_InheritAnywhere(child, elem, tmap, meths) ==
    IF child.tag = "xs:sequence"
    THEN (IF ~is_single(elem)
          THEN Err("A xs:sequence with not exactly 1 occurrence within a xs:sequence")
          ELSE read_sequence_content(child, tmap, meths))
    ELSE IF child.tag = "xs:choice"
    THEN read_choice_content(child, TRUE, tmap, meths)
    ELSE IF child.tag = "xs:all"
    THEN Err("An xs:all within a xs:sequence is not supported")
    ELSE IF child.tag \in {"xs:element", "xs:group"}
    THEN (IF child.tag = "xs:group" /\ elem.min # elem.max
          THEN Err("xs:group elements need min == max within a sequence")
          ELSE read_type_content(child, TRUE, FALSE, tmap, meths))
    ELSE Err("Unsupported element within a xs:sequence")

\* what one child of the xs:sequence is read as, elem holding its occurrence
SequenceChild(child, elem, tmap, meths) ==
    IF child.tag = "xs:sequence"
    THEN (IF ~is_single(elem)
          THEN Err("A xs:sequence with not exactly 1 occurrence within a xs:sequence")
          ELSE read_sequence_content(child, tmap, meths))
    ELSE IF child.tag = "xs:choice"
    THEN read_choice_content(child, TRUE, tmap, meths)
    ELSE IF child.tag = "xs:all"
    THEN Err("An xs:all within a xs:sequence is not supported")
    ELSE IF child.tag \in {"xs:element", "xs:group"}
    THEN (IF child.tag = "xs:group" /\ elem.min # elem.max
          THEN Err("xs:group elements need min == max within a sequence")
          ELSE read_type_content(child, is_single(elem), FALSE, tmap, meths))
    ELSE Err("Unsupported element within a xs:sequence")

\* mutant: the slots of a nested xs:sequence are put before the parent's
SequenceStep_NestedFirst(kids, i, sequence, elem, sub, tmap, meths) ==
    IF IsErr(sub) THEN sub
    ELSE SequenceLoop(kids, i + 1,
            [sequence EXCEPT !.elements =
                IF sub.kind = "sequence" THEN sub.elements \o @
                ELSE Append(@, [min |-> elem.min, max |-> elem.max,
                                element |-> sub])],
            tmap, meths)

\* the rest of one iteration, sub being what the child was read as
SequenceStep(kids, i, sequence, elem, sub, tmap, meths) ==
    IF IsErr(sub) THEN sub
    ELSE SequenceLoop(kids, i + 1,
            [sequence EXCEPT !.elements =
                IF sub.kind = "sequence" THEN @ \o sub.elements
                ELSE Append(@, [min |-> elem.min, max |-> elem.max,
                                element |-> sub])],
            tmap, meths)

read_sequence_content(node, tmap, meths) ==
    SequenceLoop(node.kids, 1, [kind |-> "sequence", elements |-> <<>>], tmap, meths)

NoContent == [kind |-> "none"]

\* the tail of read_single_content: the occurrence is applied to a content
\* that is not a Sequence, which becomes the one slot of a new Sequence
apply_count(cont, allow_count, occ) ==
    IF cont.kind \in {"error", "none", "sequence"} THEN cont
    ELSE IF allow_count /\ (occ[1] # 1 \/ occ[2] # 1)
            /\ cont.kind = "type" /\ cont.inherit
    THEN Err("qxg:inherit is not allowed in combination with occurs")
    ELSE [kind |-> "sequence",
          elements |-> <<[min |-> occ[1], max |-> occ[2], element |-> cont]>>]

read_single_content(node, tmap, meths) ==
    LET iseq == Find(node, "xs:sequence")
        icho == Find(node, "xs:choice")
        iall == Find(node, "xs:all")
        iele == Find(node, "xs:element")
        igrp == Find(node, "xs:group")
        isub == IF iseq # 0 THEN iseq ELSE IF icho # 0 THEN icho
                ELSE IF iall # 0 THEN iall ELSE IF iele # 0 THEN iele ELSE igrp
        sub_content == node.kids[isub]
        allow_count == iseq = 0 /\ isub # 0 /\ (icho # 0 \/ iall = 0)
    IN  apply_count(
            IF iseq # 0 THEN read_sequence_content(sub_content, tmap, meths)
            ELSE IF icho # 0 THEN read_choice_content(sub_content, FALSE, tmap, meths)
            ELSE IF iall # 0 THEN read_all_content(sub_content, tmap, meths)
            ELSE IF isub # 0 THEN read_type_content(sub_content, TRUE, FALSE, tmap, meths)
            ELSE NoContent,
            allow_count,
            IF allow_count THEN read_occurs(sub_content) ELSE <<1, 1>>)

\* Python's None and a set value of an optional field of the IR
None == <<>>
Some(v) == <<v>>

RECURSIVE AttribLoop(_, _, _, _)

\* the first for loop of read_attribs from attribute i on
AttribLoop(nodes, i, acc, tmap) ==
    IF i > Len(nodes) THEN [kind |-> "members", list |-> acc]
    ELSE LET attrib == nodes[i]
             xmlType == attrib.a["type"]
             cppType == read_qxg_mapped(attrib, "type", xmlType, tmap)
             use == IF "use" \in DOMAIN attrib.a THEN attrib.a["use"] ELSE "optional"
         IN  IF cppType = "<KeyError>" THEN Err("KeyError")
             ELSE AttribLoop(nodes, i + 1,
                     Append(acc,
                        [name |-> attrib.a["name"],
                         member |-> read_qxg(attrib, "member", attrib.a["name"]),
                         xmlType |-> xmlType,
                         cppType |-> cppType,
                         default |-> IF "default" \in DOMAIN attrib.a
                                     THEN Some(attrib.a["default"]) ELSE None,
                         required |-> Lower(use) = "required"]),
                     tmap)

RECURSIVE AttribGroupLoop(_, _, _)

\* the second for loop of read_attribs from attributeGroup i on
AttribGroupLoop(nodes, i, acc) ==
    IF i > Len(nodes) THEN [kind |-> "members", list |-> acc]
    ELSE LET attrib == nodes[i]
             inherit_mem == read_qxg(attrib, "inherit", "")
             inherit == inherit_mem # "" /\ Lower(inherit_mem) = "true"
             member == read_qxg(attrib, "member", "")
         IN  IF member = "" /\ ~inherit
             THEN Err("A xs:attributeGroup must have qxg:member or qxg:inherit")
             ELSE AttribGroupLoop(nodes, i + 1,
                     Append(acc,
                        [kind |-> "type", is_group |-> TRUE, name |-> "",
                         member |-> member, type_key |-> attrib.a["ref"],
                         inherit |-> inherit, is_basic_type |-> FALSE,
                         method |-> NoMethod]))

\* the pair read_attribs returns, or the exception of the first loop that raised
attribs_result(ms, gs) ==
    IF IsErr(ms) THEN ms
    ELSE IF IsErr(gs) THEN gs
    ELSE [kind |-> "attribs", members |-> ms.list, member_groups |-> gs.list]

read_attribs(node, tmap) ==
    attribs_result(AttribLoop(FindAll(node, "xs:attribute"), 1, <<>>, tmap),
                   AttribGroupLoop(FindAll(node, "xs:attributeGroup"), 1, <<>>))

\* str.split(" ") on the memberTypes values that occur
Split(s) == CASE s = "xs:int xs:string" -> <<"xs:int", "xs:string">>
              [] OTHER -> <<s>>

BasicType(kind, xmlType, cppType) ==
    [kind |-> kind, name |-> "", xmlType |-> xmlType, cppType |-> cppType,
     elements |-> <<>>, cppTypeList |-> <<>>]

read_simple_list_type(node, tmap) ==
    LET cppType == read_qxg_mapped(node, "type", node.a["itemType"], tmap)
    IN  IF cppType = "<KeyError>" THEN Err("KeyError")
        ELSE BasicType("list", node.a["itemType"], cppType)

read_simple_union_type(node, tmap) ==
    LET xmlTypeList == Split(node.a["memberTypes"])
    IN  IF \E i \in 1..Len(xmlTypeList) : xmlTypeList[i] \notin DOMAIN tmap
        THEN Err("KeyError")
        ELSE [BasicType("union", "", "") EXCEPT
                 !.cppTypeList = [i \in 1..Len(xmlTypeList) |-> tmap[xmlTypeList[i]]]]

read_simple_enum_type(node, tmap) ==
    LET elems == FindAll(node, "xs:enumeration")
        xmlType == IF Len(elems) = 0 THEN node.a["base"] ELSE ""
        cppType == read_qxg_mapped(node, "type", xmlType, tmap)
    IN  IF cppType = "<KeyError>" THEN Err("KeyError")
        ELSE IF Len(elems) = 0 THEN BasicType("alias", xmlType, cppType)
        ELSE [BasicType("enum", xmlType, cppType) EXCEPT
                 !.elements = [i \in 1..Len(elems) |->
                    [xmlValue |-> elems[i].a["value"],
                     key |-> read_qxg(elems[i], "key", elems[i].a["value"]),
                     value |-> read_qxg(elems[i], "value", "")]]]

read_simple_type(node, tmap) ==
    LET ilist == Find(node, "xs:list")
        iunion == Find(node, "xs:union")
        irestr == Find(node, "xs:restriction")
        basic_def ==
            IF ilist # 0 THEN read_simple_list_type(node.kids[ilist], tmap)
            ELSE IF iunion # 0 THEN read_simple_union_type(node.kids[iunion], tmap)
            ELSE IF irestr # 0 THEN read_simple_enum_type(node.kids[irestr], tmap)
            ELSE Err("Unable to find xs:list, xs:union or xs:restriction in xs:simpleType")
    IN  IF IsErr(basic_def) THEN basic_def
        ELSE [basic_def EXCEPT !.name = node.a["name"]]

\* self.xs_type_map[s_type.name] = s_type.name
RegisterSimpleType(tmap, name) ==
    [t \in DOMAIN tmap \cup {name} |-> IF t = name THEN name ELSE tmap[t]]

-----------------------------------------------------------------------------
(* ContentDef accessors used by both emitters *)

NotImplemented == "<NotImplementedError>"

RECURSIVE JoinTypes(_, _)
JoinTypes(types, i) ==
    IF i > Len(types) THEN ""
    ELSE types[i] \o (IF i < Len(types) THEN ", " ELSE "") \o JoinTypes(types, i + 1)

\* TypeContentDef.generate_type
leaf_generate_type(c) == IF c.method.method = "" THEN c.type_key ELSE c.method.type_key

generate_type(c) ==
    IF c.kind = "type" THEN leaf_generate_type(c)
    ELSE IF c.kind = "choice"
    THEN "variant<" \o JoinTypes([i \in 1..Len(c.choices) |->
                                     leaf_generate_type(c.choices[i])], 1) \o ">"
    ELSE NotImplemented

read_method(c) ==
    IF c.kind = "type" /\ c.method.method # "" THEN c.method.method
    ELSE IF c.kind = "type" /\ c.is_basic_type THEN "readContent<" \o c.type_key \o ">"
    ELSE "read_" \o generate_type(c)

member_name(c) == IF c.kind \in {"type", "choice"} THEN c.member ELSE NotImplemented

xml_name(c) == IF c.kind = "type" THEN c.name ELSE NotImplemented

is_inherited(c) == c.kind = "type" /\ c.inherit

is_group_type(c) == c.kind = "type" /\ c.is_group

IsUnorderedChoice(c) == c.kind = "choice" /\ c.unordered

\* which branch of the for loop of SequenceContentDef.write_src_content emits
\* the code of a slot
SlotBranch(elem) ==
    IF (is_group_type(elem.element) /\ is_single(elem)) \/ elem.element.kind = "all"
    THEN "direct"
    ELSE IF is_group_type(elem.element) THEN "group_loop"
    ELSE IF is_single(elem) THEN "single"
    ELSE IF is_optional(elem) THEN "optional"
    ELSE IF IsUnorderedChoice(elem.element) THEN "unordered"
    ELSE "list"

-----------------------------------------------------------------------------
(* The emitted readers, run over the children of one element.              *)
(* A child's own reader is taken to succeed; the value it yields records   *)
(* the read method called, the C++ type constructed and the child read.    *)

Parsed(leaf, i) == [by |-> read_method(leaf), type |-> generate_type(leaf), child |-> i]

\* a default-constructed T that no reader wrote to
DefaultValue(leaf) == [by |-> "default", type |-> generate_type(leaf), child |-> 0]

Slots == IF content.kind = "sequence" THEN content.elements ELSE <<>>

Cur == Slots[slot]

\* reader.name() while the parser stands on a child start-element
CurName == doc[pos]

\* TypeContentDef.write_src_content, element branch: the tag test and the read
LeafCode(c) == [ok |-> CurName = c.name, value |-> Parsed(c, pos)]

\* ChoiceContentDef.write_src_content, ordered branch: the if / else-if chain
ChoiceHits(c) == {i \in 1..Len(c.choices) : c.choices[i].name = CurName}

ChoiceFirst(c) == CHOOSE i \in ChoiceHits(c) : \A j \in ChoiceHits(c) : i <= j

\* mutant: the chain constructs the first alternative whatever the tag matched
ChoiceCode_FirstAlt(c) ==
    IF ChoiceHits(c) = {} THEN [ok |-> FALSE, value |-> DefaultValue(c)]
    ELSE [ok |-> TRUE, value |-> Parsed(c.choices[1], pos)]

ChoiceCode(c) ==
    IF ChoiceHits(c) = {} THEN [ok |-> FALSE, value |-> DefaultValue(c)]
    ELSE [ok |-> TRUE, value |-> Parsed(c.choices[ChoiceFirst(c)], pos)]

ElementCode(c) == IF c.kind = "type" THEN LeafCode(c) ELSE ChoiceCode(c)

\* the member of data a slot's code stores into ("data": the record itself)
Target(c) == IF is_inherited(c) THEN "data" ELSE member_name(c)

RECURSIVE MembersOf(_)
MembersOf(c) ==
    CASE c.kind = "type" -> {c.member}
      [] c.kind = "choice" ->
            {c.member} \cup {c.choices[i].member : i \in 1..Len(c.choices)}
      [] c.kind = "all" ->
            UNION {MembersOf(c.elements[i].element) : i \in 1..Len(c.elements)}
      [] c.kind = "sequence" ->
            UNION {MembersOf(c.elements[i].element) : i \in 1..Len(c.elements)}
      [] OTHER -> {}

DataMembers(c) == MembersOf(c) \cup {"data"}

\* hasNext = reader.readNextStartElement(); checkError(reader);
Advance ==
    /\ pos' = pos + 1
    /\ hasNext' = (pos + 1 <= Len(doc))

Throw(helper) ==
    /\ pc' = "threw"
    /\ err' = helper
    /\ errPos' = pos
    /\ UNCHANGED <<content, doc, keepElementOpen, slot, pos, hasNext, data, usedElements>>

NextSlot ==
    /\ slot' = slot + 1
    /\ usedElements' = {}

AtSlot(branch) ==
    /\ pc = "slot"
    /\ slot <= Len(Slots)
    /\ SlotBranch(Cur) = branch

\* ComplexTypeDef.write_src_content without a base: the first readNextStartElement
Begin ==
    /\ UNCHANGED <<attrVars, genVars, callers, read_methods, reading, tokens, contentText>>
    /\ pc = "begin"
    /\ pc' = "slot"
    /\ Advance
    /\ UNCHANGED <<content, doc, keepElementOpen, slot, data, usedElements, err, errPos>>

\* a (1,1) slot that is no group
SlotSingle ==
    /\ UNCHANGED <<attrVars, genVars, callers, read_methods, reading, tokens, contentText>>
    /\ AtSlot("single")
    /\ IF ~hasNext THEN Throw("throwNoChild")
       ELSE IF ElementCode(Cur.element).ok
       THEN /\ data' = [data EXCEPT ![Target(Cur.element)] =
                            <<ElementCode(Cur.element).value>>]
            /\ Advance
            /\ NextSlot
            /\ UNCHANGED <<content, doc, keepElementOpen, pc, err, errPos>>
       ELSE Throw("throwChild")

\* mutant: the reader advances past the child whether or not it matched
SlotOptional_AlwaysAdvance ==
    /\ UNCHANGED <<attrVars, genVars, callers, read_methods, reading, tokens, contentText>>
    /\ AtSlot("optional")
    /\ IF hasNext
       THEN /\ data' = IF ElementCode(Cur.element).ok
                       THEN [data EXCEPT ![member_name(Cur.element)] =
                                <<ElementCode(Cur.element).value>>]
                       ELSE data
            /\ Advance
       ELSE UNCHANGED <<data, pos, hasNext>>
    /\ NextSlot
    /\ UNCHANGED <<content, doc, keepElementOpen, pc, err, errPos>>

\* a (0,1) slot that is no group
SlotOptional ==
    /\ UNCHANGED <<attrVars, genVars, callers, read_methods, reading, tokens, contentText>>
    /\ AtSlot("optional")
    /\ IF hasNext /\ ElementCode(Cur.element).ok
       THEN /\ data' = [data EXCEPT ![member_name(Cur.element)] =
                            <<ElementCode(Cur.element).value>>]
            /\ Advance
       ELSE UNCHANGED <<data, pos, hasNext>>
    /\ NextSlot
    /\ UNCHANGED <<content, doc, keepElementOpen, pc, err, errPos>>

\* mutant: the loop of a list slot without its size < max condition
ListGoesOn_NoMax ==
    /\ hasNext
    /\ ElementCode(Cur.element).ok

\* the while condition and the tag test of a list slot
ListGoesOn ==
    /\ hasNext
    /\ Cur.max = -1 \/ Len(data[member_name(Cur.element)]) < Cur.max
    /\ ElementCode(Cur.element).ok

\* one iteration of the while loop of a list slot
ListIter ==
    /\ UNCHANGED <<attrVars, genVars, callers, read_methods, reading, tokens, contentText>>
    /\ AtSlot("list")
    /\ ListGoesOn
    /\ data' = [data EXCEPT ![member_name(Cur.element)] =
                    Append(@, ElementCode(Cur.element).value)]
    /\ Advance
    /\ UNCHANGED <<content, doc, keepElementOpen, pc, slot, usedElements, err, errPos>>

\* leaving the loop of a list slot, and the size check after it
ListExit ==
    /\ UNCHANGED <<attrVars, genVars, callers, read_methods, reading, tokens, contentText>>
    /\ AtSlot("list")
    /\ ~ListGoesOn
    /\ IF Cur.min > 0 /\ Len(data[member_name(Cur.element)]) < Cur.min
       THEN Throw("throwSizeError")
       ELSE /\ NextSlot
            /\ UNCHANGED <<content, doc, keepElementOpen, pc, pos, hasNext, data, err, errPos>>

\* AllContentDef.write_src_content: the alternative whose if block is entered
AllHits(allc) == {i \in 1..Len(allc.elements) : xml_name(allc.elements[i].element) = CurName}

AllFirst(allc) == CHOOSE i \in AllHits(allc) : \A j \in AllHits(allc) : i <= j

\* what the if block of alternative i (cnt = i - 1) leaves in its field: a
\* required alternative is read into data.member; an optional one is read
\* into _element_1 and then _element_<cnt> is moved into data.member
AllStored(allc, i) ==
    IF ~allc.elements[i].optional \/ i - 1 = 1
    THEN Parsed(allc.elements[i].element, pos)
    ELSE DefaultValue(allc.elements[i].element)

\* mutant: no _usedElements.contains test before the read
AllGoesOn_NoDupCheck(allc) ==
    /\ hasNext
    /\ AllHits(allc) # {}

AllGoesOn(allc) ==
    /\ hasNext
    /\ AllHits(allc) # {}
    /\ (AllFirst(allc) - 1) \notin usedElements

\* one iteration of the while loop of an All block that reads a child
AllIter ==
    /\ UNCHANGED <<attrVars, genVars, callers, read_methods, reading, tokens, contentText>>
    /\ AtSlot("direct")
    /\ Cur.element.kind = "all"
    /\ AllGoesOn(Cur.element)
    /\ LET i == AllFirst(Cur.element)
       IN  /\ data' = [data EXCEPT ![member_name(Cur.element.elements[i].element)] =
                            <<AllStored(Cur.element, i)>>]
           /\ usedElements' = usedElements \cup {i - 1}
    /\ Advance
    /\ UNCHANGED <<content, doc, keepElementOpen, pc, slot, err, errPos>>

\* req_list
AllRequired(allc) == {i - 1 : i \in {j \in 1..Len(allc.elements) : ~allc.elements[j].optional}}

\* a break out of the loop of an All block, and the check after it
AllExit ==
    /\ UNCHANGED <<attrVars, genVars, callers, read_methods, reading, tokens, contentText>>
    /\ AtSlot("direct")
    /\ Cur.element.kind = "all"
    /\ ~AllGoesOn(Cur.element)
    /\ IF AllRequired(Cur.element) \subseteq usedElements
       THEN /\ NextSlot
            /\ UNCHANGED <<content, doc, keepElementOpen, pc, pos, hasNext, data, err, errPos>>
       ELSE Throw("throwNoChild")

\* the reader that runs is that of a group: bool read_G(reader, data, hasNext)
InGroup == reading # "" /\ read_methods[reading].kind = "group"

\* mutant: the reader returns without its last statement
Finish_NoCheck ==
    /\ UNCHANGED <<attrVars, genVars, callers, read_methods, reading, tokens, contentText>>
    /\ pc = "slot"
    /\ slot > Len(Slots)
    /\ ~InGroup
    /\ pc' = "done"
    /\ UNCHANGED <<content, doc, keepElementOpen, slot, pos, hasNext, data,
                   usedElements, err, errPos>>

\* the last statement of the reader: if(hasNext && !keepElementOpen) throwChild
Finish ==
    /\ UNCHANGED <<attrVars, genVars, callers, read_methods, reading, tokens, contentText>>
    /\ pc = "slot"
    /\ slot > Len(Slots)
    /\ ~InGroup
    /\ IF hasNext /\ ~keepElementOpen THEN Throw("throwChild")
       ELSE /\ pc' = "done"
            /\ UNCHANGED <<content, doc, keepElementOpen, slot, pos, hasNext, data,
                           usedElements, err, errPos>>

\* the emitted reader of the record of that name
ReaderOf(name) == read_methods[name]

\* mutant: hasNext starts out false after the base's reader
IsStartElement_Never == FALSE

\* reader.isStartElement(): the parser stands on the element's own start tag
\* or on that of a child, not on the end tag of the element
IsStartElement == pos <= Len(doc)

\* ComplexTypeDef.write_src_content with a base: read_<base>(reader, data, true)
CallBase ==
    /\ UNCHANGED <<attrVars, genVars>>
    /\ pc = "base"
    /\ LET base == ReaderOf(reading).base
       IN  /\ callers' = <<[reading |-> reading, keepElementOpen |-> keepElementOpen]>>
                         \o callers
           /\ reading' = base
           /\ content' = ReaderOf(base).content
           /\ pc' = IF ReaderOf(base).base # "" THEN "base" ELSE "begin"
    /\ keepElementOpen' = TRUE
    /\ slot' = 1
    /\ usedElements' = {}
    /\ UNCHANGED <<doc, pos, hasNext, data, err, errPos, read_methods, tokens, contentText>>

\* the base's reader returns: auto hasNext = reader.isStartElement(), and the
\* record's own content follows
ReturnBase ==
    /\ UNCHANGED <<attrVars, genVars>>
    /\ pc = "done"
    /\ callers # <<>>
    /\ reading' = callers[1].reading
    /\ content' = ReaderOf(callers[1].reading).content
    /\ keepElementOpen' = callers[1].keepElementOpen
    /\ callers' = Tail(callers)
    /\ hasNext' = IsStartElement
    /\ pc' = "slot"
    /\ slot' = 1
    /\ usedElements' = {}
    /\ UNCHANGED <<doc, pos, data, err, errPos, read_methods, tokens, contentText>>

\* the G a group reader has filled: its members and what they hold
GroupValue(G, fields) == [type |-> G, fields |-> fields]

\* mutant: the loop of an (n,n) group slot runs once
GroupLoopGoesOn_Once == Len(data[member_name(Cur.element)]) < 1

\* for(auto i = 0; i < max; i++), one append per iteration
GroupLoopGoesOn == Len(data[member_name(Cur.element)]) < Cur.max

\* hasNext = read_G(reader, target, hasNext): the call, from a (1,1) group
\* slot or from an iteration of the loop of another group slot; the target is
\* data.member, data itself for an inherited group, or a fresh _element
CallGroup ==
    /\ UNCHANGED <<attrVars, genVars>>
    /\ pc = "slot"
    /\ slot <= Len(Slots)
    /\ is_group_type(Cur.element)
    /\ SlotBranch(Cur) = "group_loop" => GroupLoopGoesOn
    /\ callers' = <<[reading |-> reading, keepElementOpen |-> keepElementOpen,
                     slot |-> slot, data |-> data]>> \o callers
    /\ reading' = generate_type(Cur.element)
    /\ content' = ReaderOf(generate_type(Cur.element)).content
    /\ data' = IF is_inherited(Cur.element) /\ SlotBranch(Cur) = "direct" THEN data
               ELSE [m \in DataMembers(ReaderOf(generate_type(Cur.element)).content) |-> <<>>]
    /\ slot' = 1
    /\ usedElements' = {}
    /\ UNCHANGED <<doc, keepElementOpen, pc, pos, hasNext, err, errPos, read_methods,
                   tokens, contentText>>

\* return hasNext; and the caller's assignment of it to its hasNext
ReturnGroup ==
    /\ UNCHANGED <<attrVars, genVars>>
    /\ pc = "slot"
    /\ slot > Len(Slots)
    /\ InGroup
    /\ callers # <<>>
    /\ LET f == callers[1]
           elem == ReaderOf(f.reading).content.elements[f.slot]
       IN  /\ reading' = f.reading
           /\ content' = ReaderOf(f.reading).content
           /\ keepElementOpen' = f.keepElementOpen
           /\ IF SlotBranch(elem) = "direct"
              THEN /\ data' = IF is_inherited(elem.element) THEN data
                              ELSE [f.data EXCEPT ![member_name(elem.element)] =
                                       <<GroupValue(reading, data)>>]
                   /\ slot' = f.slot + 1
              ELSE /\ data' = [f.data EXCEPT ![member_name(elem.element)] =
                                  Append(@, GroupValue(reading, data))]
                   /\ slot' = f.slot
    /\ callers' = Tail(callers)
    /\ usedElements' = {}
    /\ UNCHANGED <<doc, pc, pos, hasNext, err, errPos, read_methods, tokens, contentText>>

\* the for loop of a group slot has run max times
GroupLoopExit ==
    /\ UNCHANGED <<attrVars, genVars, callers, read_methods, reading, tokens, contentText>>
    /\ AtSlot("group_loop")
    /\ ~GroupLoopGoesOn
    /\ NextSlot
    /\ UNCHANGED <<content, doc, keepElementOpen, pc, pos, hasNext, data, err, errPos>>

\* QVariant{std::move(contentText)}.value<T>()
QVariantValue(T, text) == [type |-> T, variant |-> text]

\* MixedTypeDef.write_src_content: one turn of while(canReadText) on a token
\* that is no start or end tag
MixedReadNext ==
    /\ UNCHANGED <<attrVars, genVars, callers, read_methods, reading>>
    /\ pc = "text"
    /\ tokens # <<>>
    /\ tokens' = Tail(tokens)
    /\ IF Head(tokens).type \in {"Characters", "EntityReference"}
       THEN /\ contentText' = contentText \o Head(tokens).text
            /\ UNCHANGED <<content, doc, keepElementOpen, pc, slot, pos, hasNext, data,
                           usedElements, err, errPos>>
       ELSE IF Head(tokens).type \in {"ProcessingInstruction", "Comment"}
       THEN UNCHANGED <<content, doc, keepElementOpen, pc, slot, pos, hasNext, data,
                        usedElements, err, errPos, contentText>>
       ELSE Throw("throwChild") /\ UNCHANGED contentText

\* the turn that reads the first child's start tag or the end tag, and the
\* if(reader.tokenType() == QXmlStreamReader::EndElement) after the loop
MixedStop ==
    /\ UNCHANGED <<attrVars, genVars, callers, read_methods, reading>>
    /\ pc = "text"
    /\ tokens = <<>>
    /\ pos' = 1
    /\ IF doc = <<>>
       THEN /\ data' = [data EXCEPT ![ReaderOf(reading).contentMember] =
                            <<QVariantValue(ReaderOf(reading).contentCppType, contentText)>>]
            /\ pc' = "done"
            /\ UNCHANGED hasNext
       ELSE /\ hasNext' = TRUE
            /\ pc' = "slot"
            /\ UNCHANGED data
    /\ UNCHANGED <<content, doc, keepElementOpen, slot, usedElements, err, errPos,
                   tokens, contentText>>

-----------------------------------------------------------------------------
(* The validation pre-pass and the configuration.                          *)
(* A path, and a class name made from one, is a sequence of characters.    *)

LowerChars == <<"a", "b", "c", "d", "e", "f", "g", "h", "i", "j", "k", "l", "m",
                "n", "o", "p", "q", "r", "s", "t", "u", "v", "w", "x", "y", "z">>

UpperChars == <<"A", "B", "C", "D", "E", "F", "G", "H", "I", "J", "K", "L", "M",
                "N", "O", "P", "Q", "R", "S", "T", "U", "V", "W", "X", "Y", "Z">>

IsCased(c) == \E i \in 1..Len(LowerChars) : c \in {LowerChars[i], UpperChars[i]}

ToUpper(c) == IF \E i \in 1..Len(LowerChars) : LowerChars[i] = c
              THEN UpperChars[CHOOSE i \in 1..Len(LowerChars) : LowerChars[i] = c]
              ELSE c

ToLower(c) == IF \E i \in 1..Len(UpperChars) : UpperChars[i] = c
              THEN LowerChars[CHOOSE i \in 1..Len(UpperChars) : UpperChars[i] = c]
              ELSE c

\* str.title(): a cased character is upper-cased after an uncased one (or
\* at the start) and lower-cased after a cased one
Title(str) ==
    [i \in 1..Len(str) |->
        IF i = 1 \/ ~IsCased(str[i - 1]) THEN ToUpper(str[i]) ELSE ToLower(str[i])]

\* index of the last occurrence of c in str, 0 if there is none
LastIndex(str, c) ==
    IF \E i \in 1..Len(str) : str[i] = c
    THEN CHOOSE i \in 1..Len(str) : str[i] = c /\ \A j \in (i + 1)..Len(str) : str[j] # c
    ELSE 0

\* os.path.basename
BaseName(path) == SubSeq(path, LastIndex(path, "/") + 1, Len(path))

\* os.path.splitext(name)[0]: up to the last dot, unless only dots precede it
SplitExtRoot(name) ==
    LET d == LastIndex(name, ".")
    IN  IF d > 1 /\ \E i \in 1..(d - 1) : name[i] # "." THEN SubSeq(name, 1, d - 1)
        ELSE name

\* what the pre-pass finds: lxml cannot be imported, the meta-schema cannot
\* be fetched, the document does not conform to it, or it does
VerifyEnvs == {"no_lxml", "no_network", "invalid", "passed"}

\* xml_verify(xsd_path, required): the exception that leaves it ("" for a
\* normal return) and what it prints to stderr
xml_verify(env, required) ==
    CASE env = "no_lxml" ->
            IF required THEN [raised |-> "ImportError", printed |-> <<>>]
            ELSE [raised |-> "",
                  printed |-> <<"Skipping XSD validation because of unavailable module">>]
      [] env = "no_network" ->
            IF required THEN [raised |-> "URLError", printed |-> <<>>]
            ELSE [raised |-> "",
                  printed |-> <<"Skipping XSD validation because of network error">>]
      [] env = "invalid" -> [raised |-> "DocumentInvalid", printed |-> <<>>]
      [] OTHER -> [raised |-> "", printed |-> <<>>]

\* xmlcodegen called with verify = False
NotVerified == [raised |-> "", printed |-> <<>>]

\* the values of QxgConfig.Visibility
Visibilities == {"public", "protected", "private"}

\* QxgConfig(xsd_path): the class defaults, the class name from the path if
\* one is given (None: <<>>, else <<path>>)
QxgConfig(xsd_path) ==
    [kind |-> "config",
     className |-> IF xsd_path = <<>> THEN <<>>
                   ELSE Title(SplitExtRoot(BaseName(xsd_path[1]))),
     prefix |-> "", ns |-> "", visibility |-> "protected", includes |-> <<>>,
     stdcompat |-> FALSE, schemaUrl |-> ""]

\* the attribute if the node has it, else the value kept
AttrOr(node, attr, kept) == IF attr \in DOMAIN node.a THEN node.a[attr] ELSE kept

\* read_config up to the visibility attribute
read_config_head(node) ==
    [QxgConfig(<<>>) EXCEPT
        !.className = AttrOr(node, "class", @),
        !.prefix = AttrOr(node, "prefix", @),
        !.ns = AttrOr(node, "ns", @),
        !.stdcompat = IF "stdcompat" \in DOMAIN node.a
                      THEN Lower(node.a["stdcompat"]) = "true" ELSE @,
        !.schemaUrl = AttrOr(node, "schemaUrl", @)]

\* the rest of read_config, c being the configuration set so far: the
\* visibility, a ValueError if QxgConfig.Visibility has no such value, and
\* the includes
read_config_tail(node, c, incs) ==
    IF "visibility" \in DOMAIN node.a /\ Lower(node.a["visibility"]) \notin Visibilities
    THEN [kind |-> "error", msg |-> "ValueError", partial |-> c]
    ELSE [c EXCEPT
             !.visibility = IF "visibility" \in DOMAIN node.a
                            THEN Lower(node.a["visibility"]) ELSE @,
             !.includes = [i \in 1..Len(incs) |->
                              [include |-> AttrOr(incs[i], "text", ""),
                               local |-> "local" \in DOMAIN incs[i].a
                                         /\ Lower(incs[i].a["local"]) = "true"]]]

read_config(node) ==
    read_config_tail(node, read_config_head(node), FindAll(node, "qxg:include"))

\* the configuration xmlcodegen sets: from the first qxg:config child of the
\* root, or the defaults with the class name made from the path
config_of(kids, xsd_path) ==
    IF \E i \in 1..Len(kids) : kids[i].tag = "qxg:config"
    THEN read_config(kids[CHOOSE i \in 1..Len(kids) :
                             /\ kids[i].tag = "qxg:config"
                             /\ \A j \in 1..(i - 1) : kids[j].tag # "qxg:config"])
    ELSE QxgConfig(<<xsd_path>>)

\* qxmlcodegen.py <xsd> <hdr> <src>
DefaultArgs ==
    [xsd |-> <<"s", "c", "h", "e", "m", "a", ".", "x", "s", "d">>,
     verify |-> FALSE, skip_verify |-> FALSE]

\* self.config before xmlcodegen assigns it
NoConfig == [kind |-> "unset"]

-----------------------------------------------------------------------------
(* The generator before its first run *)

\* the class statement's ns_map
NsMapInit == [p \in {"qxg"} |-> "https://skycoder42.de/xml/schemas/QXmlCodeGen"]

NoFile == [state |-> "absent"]

\* XmlCodeGenerator() constructed, xmlcodegen not called yet
GenFresh ==
    /\ gpc = "idle"
    /\ child_i = 1
    /\ type_defs = <<>>
    /\ root_elements = <<>>
    /\ xs_type_map = XsTypeMap
    /\ ns_map = NsMapInit
    /\ methods = <<>>
    /\ files = [r \in 1..MaxRuns |-> [hdr |-> NoFile, src |-> NoFile]]
    /\ run = 1
    /\ gerr = ""
    /\ config = NoConfig
    /\ stderr = <<>>

\* the same, the script called with the three paths and no option
GenIdle ==
    /\ GenFresh
    /\ args = DefaultArgs

-----------------------------------------------------------------------------
(* Schemas the readers are emitted from, and the documents they are run on *)

NoAttrs == <<>>

MinStrings == {IntStr[n + 1] : n \in 0..MaxOccurs}
MaxStrings == MinStrings \cup {"unbounded"}

\* minOccurs <= maxOccurs, as XSD demands of a particle
OccursPairs ==
    {o \in MinStrings \X MaxStrings : o[2] = "unbounded" \/ ParseInt(o[1]) <= ParseInt(o[2])}

OccursAttrs(o) == ("minOccurs" :> o[1]) @@ ("maxOccurs" :> o[2])

ElementNode(name, type, o) ==
    Node("xs:element", [name |-> name, type |-> type] @@ OccursAttrs(o), <<>>)

ComplexTypeNode(name, kids) == Node("xs:complexType", [name |-> name], kids)

\* sequence { x: xs:int [min..max] } and sequence { x: xs:int [min..max], y: Y [0..1] | [1..1] }
SequenceTypeNodes ==
    {ComplexTypeNode("T", <<Node("xs:sequence", NoAttrs,
        <<ElementNode("x", "xs:int", o)>>)>>) : o \in OccursPairs}
    \cup
    {ComplexTypeNode("T", <<Node("xs:sequence", NoAttrs,
        <<ElementNode("x", "xs:int", o[1]), ElementNode("y", "Y", <<o[2], "1">>)>>)>>) :
        o \in OccursPairs \X {"0", "1"}}

\* all { a: A, b: B } and all { a: A, b: B, c: B }, each alternative required or optional
AllTypeNodes ==
    {ComplexTypeNode("T", <<Node("xs:all", NoAttrs,
        <<ElementNode("a", "A", <<o[1], "1">>), ElementNode("b", "B", <<o[2], "1">>)>>)>>) :
        o \in {"0", "1"} \X {"0", "1"}}
    \cup
    {ComplexTypeNode("T", <<Node("xs:all", NoAttrs,
        <<ElementNode("a", "A", <<o[1], "1">>), ElementNode("b", "B", <<o[2], "1">>),
          ElementNode("c", "B", <<o[3], "1">>)>>)>>) :
        o \in {"0", "1"} \X {"0", "1"} \X {"0", "1"}}

\* choice member="body" { e1: E1 | e2: E2 } with its own occurrence
ChoiceTypeNodes ==
    {ComplexTypeNode("T", <<Node("xs:choice", ("qxg:member" :> "body") @@ OccursAttrs(o),
        <<ElementNode("e1", "E1", <<"1", "1">>), ElementNode("e2", "E2", <<"1", "1">>)>>)>>) :
        o \in {<<"1", "1">>, <<"0", "1">>, <<"0", "unbounded">>}}

ReaderTypeNodes == SequenceTypeNodes \cup AllTypeNodes \cup ChoiceTypeNodes

RECURSIVE NamesOf(_)
NamesOf(c) ==
    CASE c.kind = "type" -> {c.name}
      [] c.kind = "choice" -> {c.choices[i].name : i \in 1..Len(c.choices)}
      [] c.kind \in {"all", "sequence"} ->
            UNION {NamesOf(c.elements[i].element) : i \in 1..Len(c.elements)}
      [] OTHER -> {}

\* documents: up to MaxChildren children named as the content names them, or "ex"
Documents(c) == UNION {[1..n -> NamesOf(c) \cup {"ex"}] : n \in 0..MaxChildren}

\* the emitted C++ names only identifiers it declares: an optional alternative
\* of an All block uses _element_1 whatever its index
AllBuilds(allc) ==
    \A i \in 1..Len(allc.elements) :
        /\ allc.elements[i].element.kind = "type"
        /\ allc.elements[i].optional =>
              \/ i - 1 = 1
              \/ /\ i - 1 > 1
                 /\ allc.elements[2].optional
                 /\ generate_type(allc.elements[2].element)
                        = generate_type(allc.elements[i].element)

\* _total and _max are declared by the unordered branch of the Sequence only
ReaderBuilds(c) ==
    \A i \in 1..Len(c.elements) :
        LET e == c.elements[i]
        IN  /\ e.element.kind = "all" => AllBuilds(e.element)
            /\ IsUnorderedChoice(e.element) => SlotBranch(e) = "unordered"

InitRead ==
    /\ \E node \in ReaderTypeNodes :
          content = read_single_content(node, XsTypeMap, <<>>)
    /\ content.kind = "sequence"
    /\ ReaderBuilds(content)
    /\ doc \in Documents(content)
    /\ data = [m \in DataMembers(content) |-> <<>>]
    /\ keepElementOpen \in BOOLEAN
    /\ pc = "begin"
    /\ slot = 1
    /\ pos = 0
    /\ hasNext = FALSE
    /\ usedElements = {}
    /\ err = ""
    /\ errPos = 0
    /\ callers = <<>>
    /\ read_methods = <<>>
    /\ reading = ""
    /\ tokens = <<>>
    /\ contentText = ""
    /\ members = <<>>
    /\ simple_types = <<>>
    /\ attribs = <<>>
    /\ attr_i = 1
    /\ schema = <<>>
    /\ GenIdle

NextRead ==
    \/ Begin
    \/ SlotSingle
    \/ SlotOptional
    \/ ListIter
    \/ ListExit
    \/ AllIter
    \/ AllExit
    \/ Finish

SpecRead == InitRead /\ [][NextRead]_vars

-----------------------------------------------------------------------------
(* Properties of the emitted readers (checked under SpecRead) *)

Ended == pc \in {"done", "threw"}

Count(name) == Cardinality({i \in 1..Len(doc) : doc[i] = name})

\* the content is a Sequence of the one slot x, read by the list branch, max finite
OneRepeatedSlot ==
    /\ Len(Slots) = 1
    /\ Slots[1].element.kind = "type"
    /\ SlotBranch(Slots[1]) = "list"
    /\ Slots[1].max # -1

\* C1: a Sequence of one repeated element slot x with bounds (min,max), max
\* finite, read with keepElementOpen = false over k <x> children and nothing
\* else: for min <= k <= max the reader returns with the list holding the k
\* values in document order; for k < min it throws the size error; for
\* k > max it throws the unexpected-child error standing on child max + 1.
C1_RepeatedSlotBounds ==
    (OneRepeatedSlot /\ ~keepElementOpen /\ Ended /\ Count("x") = Len(doc)) =>
        LET k == Len(doc)
            e == Slots[1]
        IN  /\ (e.min <= k /\ k <= e.max) =>
                  /\ pc = "done"
                  /\ data[e.element.member] = [i \in 1..k |-> Parsed(e.element, i)]
            /\ k < e.min => (pc = "threw" /\ err = "throwSizeError")
            /\ k > e.max => (pc = "threw" /\ err = "throwChild" /\ errPos = e.max + 1)

\* S3: bounds (2,3), two <x> children, read to the end
C1_Witness ==
    /\ OneRepeatedSlot /\ ~keepElementOpen
    /\ Slots[1].min = 2 /\ Slots[1].max = 3
    /\ doc = <<"x", "x">>
    /\ pc = "done"
    /\ Len(data["x"]) = 2

\* the content is one All block
OneAllBlock ==
    /\ Len(Slots) = 1
    /\ Slots[1].element.kind = "all"

AllAlternatives == Slots[1].element.elements

\* each required alternative occurs once, each optional one at most once,
\* and no other child occurs
AllConforms ==
    /\ \A i \in 1..Len(AllAlternatives) :
          LET n == Count(AllAlternatives[i].element.name)
          IN  IF AllAlternatives[i].optional THEN n <= 1 ELSE n = 1
    /\ \A j \in 1..Len(doc) :
          \E i \in 1..Len(AllAlternatives) : doc[j] = AllAlternatives[i].element.name

OneChoice ==
    /\ Len(Slots) = 1
    /\ Slots[1].element.kind = "choice"
    /\ ~Slots[1].element.unordered
    /\ Slots[1].min <= 1

ChoiceAlternatives == Slots[1].element.choices

\* C3: an ordered Choice with member m: over a document whose single child
\* is named as alternative i, the reader returns with m holding the variant
\* alternative of that alternative's type, filled by its read method; over a
\* document whose first child matches no alternative it throws the
\* unexpected-child error on that child, and m is never assigned.
C3_ChoiceVariant ==
    OneChoice =>
        /\ \A i \in 1..Len(ChoiceAlternatives) :
              (Ended /\ doc = <<ChoiceAlternatives[i].name>>) =>
                  /\ pc = "done"
                  /\ data[Slots[1].element.member] =
                        <<[by |-> "read_" \o ChoiceAlternatives[i].type_key,
                           type |-> ChoiceAlternatives[i].type_key,
                           child |-> 1]>>
        /\ (Len(doc) >= 1 /\ \A i \in 1..Len(ChoiceAlternatives) :
                                 doc[1] # ChoiceAlternatives[i].name) =>
              /\ data[Slots[1].element.member] = <<>>
              /\ (Ended /\ (is_single(Slots[1]) \/ ~keepElementOpen)) =>
                    (pc = "threw" /\ err = "throwChild" /\ errPos = 1)

\* S4: choice member="body" { e1: E1 | e2: E2 } over <e2/>
C3_Witness ==
    /\ OneChoice /\ is_single(Slots[1])
    /\ doc = <<"e2">>
    /\ pc = "done"
    /\ data["body"] = <<[by |-> "read_E2", type |-> "E2", child |-> 1]>>

-----------------------------------------------------------------------------
(* The attribute phase of an emitted reader, and value conversion *)

MaxAttrs == 2       \* most attributes of the record read
MaxEnum == 2        \* most xs:enumeration children of the simpleType

\* the BasicTypeDefs whose name is the C++ type T
SpecialisedFor(T) == {i \in 1..Len(simple_types) : simple_types[i].name = T}

\* EnumBasicDef.write_converter: the if / else-if chain over data
EnumHits(def, text) == {i \in 1..Len(def.elements) : def.elements[i].xmlValue = text}

EnumFirst(def, text) == CHOOSE i \in EnumHits(def, text) : \A j \in EnumHits(def, text) : i <= j

\* mutant: the chain returns the matched text instead of the element's key
convert_enum_text(def, text) ==
    IF EnumHits(def, text) = {} THEN [ok |-> FALSE, err |-> "throwInvalidEnum"]
    ELSE [ok |-> TRUE, value |-> [type |-> def.name, key |-> text]]

convert_enum(def, text) ==
    IF EnumHits(def, text) = {} THEN [ok |-> FALSE, err |-> "throwInvalidEnum"]
    ELSE [ok |-> TRUE,
          value |-> [type |-> def.name, key |-> def.elements[EnumFirst(def, text)].key]]

\* convertData<T>(reader, text): the specialisation emitted for a top-level
\* enum simpleType, else the generic QVariant{data}.value<T>()
convertData(T, text) ==
    IF \E i \in SpecialisedFor(T) : simple_types[i].kind = "enum"
    THEN convert_enum(simple_types[CHOOSE i \in SpecialisedFor(T) :
                                       simple_types[i].kind = "enum"], text)
    ELSE [ok |-> TRUE, value |-> [type |-> T, variant |-> text]]

HasAttribute(key) == key \in DOMAIN attribs

\* T readRequiredAttrib<T>(reader, key)
readRequiredAttrib(T, key) ==
    IF HasAttribute(key) THEN convertData(T, attribs[key])
    ELSE [ok |-> FALSE, err |-> "RequiredAttribute"]

\* optional<T> readOptionalAttrib<T>(reader, key)
readOptionalAttrib2(T, key) ==
    IF HasAttribute(key) THEN convertData(T, attribs[key])
    ELSE [ok |-> TRUE, empty |-> TRUE]

\* T readOptionalAttrib<T>(reader, key, defaultValue)
readOptionalAttrib3(T, key, defaultValue) ==
    IF HasAttribute(key) THEN convertData(T, attribs[key])
    ELSE convertData(T, defaultValue)

\* mutant: an optional attribute is read without its default
AttribCall_NoDefault(member) ==
    IF member.required THEN readRequiredAttrib(member.cppType, member.name)
    ELSE readOptionalAttrib2(member.cppType, member.name)

\* write_src_types: the call emitted for one attribute
AttribCall(member) ==
    IF member.required THEN readRequiredAttrib(member.cppType, member.name)
    ELSE IF member.default # None
    THEN readOptionalAttrib3(member.cppType, member.name, member.default[1])
    ELSE readOptionalAttrib2(member.cppType, member.name)

\* write_hdr_types: the field declared for one attribute
HdrAttribField(member) ==
    [shape |-> IF ~member.required /\ member.default = None THEN "optional" ELSE "plain",
     type |-> member.cppType,
     member |-> member.member]

\* data.<member> = read...Attrib<T>(...) for the next attribute
ReadAttrib ==
    /\ pc = "attrs"
    /\ attr_i <= Len(members)
    /\ LET m == members[attr_i]
           r == AttribCall(m)
       IN  IF ~r.ok THEN Throw(r.err) /\ UNCHANGED attr_i
           ELSE /\ data' = [data EXCEPT ![m.member] =
                                IF "empty" \in DOMAIN r THEN <<>> ELSE <<r.value>>]
                /\ attr_i' = attr_i + 1
                /\ pc' = IF attr_i = Len(members) THEN "begin" ELSE "attrs"
                /\ UNCHANGED <<content, doc, keepElementOpen, slot, pos, hasNext,
                               usedElements, err, errPos>>
    /\ UNCHANGED <<members, simple_types, attribs, genVars, callers, read_methods, reading, tokens, contentText>>

\* simpleType Color { restriction { enumeration* } }, some with a qxg:key
EnumerationNodes ==
    {Node("xs:enumeration", [value |-> "red"], <<>>),
     Node("xs:enumeration", [value |-> "pink"] @@ ("qxg:key" :> "Pink"), <<>>),
     Node("xs:enumeration", [value |-> "red"] @@ ("qxg:key" :> "Crimson"), <<>>)}

EnumTypeNodes ==
    {Node("xs:simpleType", [name |-> "Color"],
        <<Node("xs:restriction", [base |-> "xs:string"], es)>>) :
        es \in UNION {[1..n -> EnumerationNodes] : n \in 1..MaxEnum}}

AttrNames == <<"a", "b", "c", "d">>

\* use and default of an attribute as the schema can give them
AttrKinds == {"required", "required+default", "default", "optional+default", "plain"}

AttrKindAttrs(k) ==
    CASE k = "required" -> [use |-> "required"]
      [] k = "required+default" -> [use |-> "required", default |-> "red"]
      [] k = "default" -> [default |-> "red"]
      [] k = "optional+default" -> [use |-> "optional", default |-> "pink"]
      [] OTHER -> NoAttrs

AttributeNode(i, type, k) ==
    Node("xs:attribute", [name |-> AttrNames[i], type |-> type] @@ AttrKindAttrs(k), <<>>)

AttrTypeNodes ==
    {ComplexTypeNode("R", [i \in 1..Len(f) |-> AttributeNode(i, f[i][1], f[i][2])]) :
        f \in UNION {[1..m -> {"Color", "xs:int"} \X AttrKinds] : m \in 1..MaxAttrs}}

AttrTexts == {"red", "pink"}

\* the attributes an element can carry: each declared name absent or with a text
AttribMaps(ms) ==
    UNION {[{ms[i].name : i \in S} -> AttrTexts] : S \in SUBSET (1..Len(ms))}

InitAttr ==
    /\ \E st \in EnumTypeNodes, node \in AttrTypeNodes :
          LET def == read_simple_type(st, XsTypeMap)
              rd == read_attribs(node, RegisterSimpleType(XsTypeMap, def.name))
          IN  /\ Len(node.kids) = Len(FindAll(node, "xs:attribute"))
              /\ simple_types = <<def>>
              /\ members = rd.members
              /\ attribs \in AttribMaps(rd.members)
              /\ data = [m \in {rd.members[i].member : i \in 1..Len(rd.members)}
                                  \cup DataMembers(NoContent) |-> <<>>]
    /\ content = NoContent
    /\ doc = <<>>
    /\ keepElementOpen = FALSE
    /\ pc = "attrs"
    /\ slot = 1
    /\ pos = 0
    /\ hasNext = FALSE
    /\ usedElements = {}
    /\ err = ""
    /\ errPos = 0
    /\ callers = <<>>
    /\ read_methods = <<>>
    /\ reading = ""
    /\ tokens = <<>>
    /\ contentText = ""
    /\ attr_i = 1
    /\ schema = <<>>
    /\ GenIdle

NextAttr ==
    \/ ReadAttrib
    \/ Begin
    \/ Finish

SpecAttr == InitAttr /\ [][NextAttr]_vars

-----------------------------------------------------------------------------
(* Properties of the attribute phase and of the enum converter (SpecAttr) *)

Present(m) == m.name \in DOMAIN attribs

\* the attribute phase got past attribute i
AttribRead(i) == i < attr_i

\* C4: the attribute phase handles the attributes in declaration order: it
\* never gets past a required attribute that is absent, and stops there with
\* the missing-required-attribute error; past an absent optional attribute
\* with a default the field holds the converted default string; past an
\* absent optional attribute without a default the field is an empty
\* optional; the header declares optional<T> in exactly that last case and
\* plain T otherwise.
C4_AttributePhase ==
    \A i \in 1..Len(members) :
        LET m == members[i]
        IN  /\ (HdrAttribField(m).shape = "optional") <=> (~m.required /\ m.default = None)
            /\ HdrAttribField(m).shape \in {"optional", "plain"}
            /\ (m.required /\ ~Present(m)) =>
                  /\ ~AttribRead(i)
                  /\ (Ended /\ attr_i = i) => (pc = "threw" /\ err = "RequiredAttribute")
            /\ (err = "RequiredAttribute" /\ attr_i = i) => (m.required /\ ~Present(m))
            /\ (AttribRead(i) /\ ~Present(m) /\ ~m.required /\ m.default # None) =>
                  /\ convertData(m.cppType, m.default[1]).ok
                  /\ data[m.member] = <<convertData(m.cppType, m.default[1]).value>>
            /\ (AttribRead(i) /\ ~Present(m) /\ ~m.required /\ m.default = None) =>
                  data[m.member] = <<>>

\* S2: a required, b with a default; only a is given
C4_Witness ==
    /\ Len(members) = 2
    /\ members[1].required /\ members[1].default = None
    /\ ~members[2].required /\ members[2].default = Some("red")
    /\ members[2].cppType = "qint32"
    /\ DOMAIN attribs = {"a"}
    /\ pc = "done"
    /\ data["b"] = <<[type |-> "qint32", variant |-> "red"]>>

\* the text convertData is given for attribute i, when there is one
HasText(m) == Present(m) \/ (~m.required /\ m.default # None)

TextOf(m) == IF Present(m) THEN attribs[m.name] ELSE m.default[1]

\* C5: the converter emitted for an enum simpleType returns, for a text that
\* equals the xml_value of an enumeration, the key of an enumeration with
\* that xml_value (the key being the qxg:key, or the xml_value without
\* one), and throws the invalid-enum error for every other text.
C5_EnumConverter ==
    /\ \A st \in EnumTypeNodes :
          LET def == read_simple_type(st, XsTypeMap)
              es == st.kids[1].kids
          IN  /\ def.kind = "enum" /\ Len(def.elements) = Len(es)
              /\ \A j \in 1..Len(es) :
                    /\ def.elements[j].xmlValue = es[j].a["value"]
                    /\ def.elements[j].key = IF "qxg:key" \in DOMAIN es[j].a
                                             THEN es[j].a["qxg:key"] ELSE es[j].a["value"]
    /\ \A i \in 1..Len(members) :
          LET m == members[i]
              def == simple_types[1]
              keys == {def.elements[j].key :
                          j \in {n \in 1..Len(def.elements) :
                                    def.elements[n].xmlValue = TextOf(m)}}
          IN  (m.cppType = def.name /\ HasText(m)) =>
                 /\ AttribRead(i) =>
                       \E k \in keys : data[m.member] = <<[type |-> def.name, key |-> k]>>
                 /\ keys = {} =>
                       /\ ~AttribRead(i)
                       /\ (Ended /\ attr_i = i) => (pc = "threw" /\ err = "throwInvalidEnum")
                 /\ (err = "throwInvalidEnum" /\ attr_i = i) => keys = {}

\* S6 with a keyed enumeration: color="pink" read as the key Pink
C5_Witness ==
    /\ Len(simple_types[1].elements) = 2
    /\ simple_types[1].elements[2] = [xmlValue |-> "pink", key |-> "Pink", value |-> ""]
    /\ Len(members) = 1
    /\ members[1].cppType = "Color"
    /\ attribs = [n \in {"a"} |-> "pink"]
    /\ pc = "done"
    /\ data["a"] = <<[type |-> "Color", key |-> "Pink"]>>

-----------------------------------------------------------------------------
(* Top-level definitions of the schema: read_type, read_group,             *)
(* read_attr_group, read_method                                            *)

\* a TypeDef of one of the classes SimpleTypeDef ("simple"), ComplexTypeDef
\* ("complex"), MixedTypeDef ("mixed"), GroupTypeDef ("group"),
\* AttrGroupTypeDef ("attrgroup"), with the class defaults
TypeDef(kind, name) ==
    [kind |-> kind, name |-> name, declare |-> FALSE, baseType |-> "",
     contentXmlType |-> "", contentCppType |-> "", contentMember |-> "",
     members |-> <<>>, member_groups |-> <<>>, content |-> NoContent]

\* mutant: a mixed complexContent/extension may carry @base, which becomes
\* the base type
read_type_head_MixedBase(node) ==
    LET mixed == "mixed" \in DOMAIN node.a /\ Lower(node.a["mixed"]) = "true"
        isimple == Find(node, "xs:simpleContent")
        icomplex == IF isimple = 0 THEN Find(node, "xs:complexContent") ELSE 0
        wrapper == IF isimple # 0 THEN node.kids[isimple]
                   ELSE IF icomplex # 0 THEN node.kids[icomplex] ELSE node
        iext == IF isimple # 0 \/ icomplex # 0 THEN Find(wrapper, "xs:extension") ELSE 0
        content_node == IF iext # 0 THEN wrapper.kids[iext] ELSE node
    IN  IF isimple # 0 /\ iext = 0
        THEN Err("Only xs:simpleContent elements with an xs:extension as child are allowed")
        ELSE IF icomplex # 0 /\ iext = 0
        THEN Err("Only xs:complexContent elements with an xs:extension as child are allowed")
        ELSE IF (isimple # 0 \/ (icomplex # 0 /\ ~mixed)) /\ "base" \notin DOMAIN content_node.a
        THEN Err("KeyError")
        ELSE [kind |-> IF isimple # 0 THEN "simple" ELSE IF mixed THEN "mixed" ELSE "complex",
              content_node |-> content_node,
              baseType |-> IF icomplex # 0 /\ "base" \in DOMAIN content_node.a
                           THEN content_node.a["base"] ELSE "",
              contentXmlType |-> IF isimple # 0 THEN content_node.a["base"] ELSE ""]

\* the first half of read_type: the class of the TypeDef and the node its
\* attributes and content are read from
read_type_head(node) ==
    LET mixed == "mixed" \in DOMAIN node.a /\ Lower(node.a["mixed"]) = "true"
        isimple == Find(node, "xs:simpleContent")
        icomplex == IF isimple = 0 THEN Find(node, "xs:complexContent") ELSE 0
        wrapper == IF isimple # 0 THEN node.kids[isimple]
                   ELSE IF icomplex # 0 THEN node.kids[icomplex] ELSE node
        iext == IF isimple # 0 \/ icomplex # 0 THEN Find(wrapper, "xs:extension") ELSE 0
        content_node == IF iext # 0 THEN wrapper.kids[iext] ELSE node
    IN  IF isimple # 0 /\ iext = 0
        THEN Err("Only xs:simpleContent elements with an xs:extension as child are allowed")
        ELSE IF icomplex # 0 /\ iext = 0
        THEN Err("Only xs:complexContent elements with an xs:extension as child are allowed")
        ELSE IF icomplex # 0 /\ mixed /\ "base" \in DOMAIN content_node.a
        THEN Err("xs:complexType definition that have a xs:base and are xs:mixed are not supported")
        ELSE IF (isimple # 0 \/ (icomplex # 0 /\ ~mixed)) /\ "base" \notin DOMAIN content_node.a
        THEN Err("KeyError")
        ELSE [kind |-> IF isimple # 0 THEN "simple" ELSE IF mixed THEN "mixed" ELSE "complex",
              content_node |-> content_node,
              baseType |-> IF icomplex # 0 /\ ~mixed THEN content_node.a["base"] ELSE "",
              contentXmlType |-> IF isimple # 0 THEN content_node.a["base"] ELSE ""]

\* the second half of read_type: name, declare, content type and member,
\* attributes, content
read_type_body(node, head, cppType, attrs, cont) ==
    IF cppType = "<KeyError>" THEN Err("KeyError")
    ELSE IF IsErr(attrs) THEN attrs
    ELSE IF IsErr(cont) THEN cont
    ELSE [TypeDef(head.kind, node.a["name"]) EXCEPT
             !.declare = Lower(read_qxg(node, "declare", "false")) = "true",
             !.baseType = head.baseType,
             !.contentXmlType = head.contentXmlType,
             !.contentCppType = cppType,
             !.contentMember = IF head.kind \in {"simple", "mixed"}
                               THEN read_qxg(head.content_node, "member",
                                             LowerFirst(node.a["name"]))
                               ELSE "",
             !.members = attrs.members,
             !.member_groups = attrs.member_groups,
             !.content = cont]

read_type_tail(node, head, tmap, meths) ==
    IF IsErr(head) THEN head
    ELSE read_type_body(node, head,
            IF head.kind \in {"simple", "mixed"}
            THEN read_qxg_mapped(head.content_node, "type",
                    IF head.kind = "simple" THEN head.contentXmlType ELSE "xs:string", tmap)
            ELSE "",
            read_attribs(head.content_node, tmap),
            IF head.kind \in {"complex", "mixed"}
            THEN read_single_content(head.content_node, tmap, meths) ELSE NoContent)

read_type(node, tmap, meths) == read_type_tail(node, read_type_head(node), tmap, meths)

\* GroupTypeDef with its name and content
group_result(name, cont) ==
    IF IsErr(cont) THEN cont
    ELSE [TypeDef("group", name) EXCEPT !.content = cont]

\* AttrGroupTypeDef with its name, members and member_groups
attr_group_result(name, attrs) ==
    IF IsErr(attrs) THEN attrs
    ELSE [TypeDef("attrgroup", name) EXCEPT
             !.members = attrs.members,
             !.member_groups = attrs.member_groups]

read_group(node, tmap, meths) ==
    group_result(node.a["name"], read_single_content(node, tmap, meths))

read_attr_group(node, tmap) ==
    attr_group_result(node.a["name"], read_attribs(node, tmap))

\* XmlCodeGenerator.read_method: the QxgMethod of a qxg:method node
read_qxg_method(node) ==
    [name |-> node.a["name"],
     type_key |-> node.a["type"],
     as_group |-> "asGroup" \in DOMAIN node.a /\ Lower(node.a["asGroup"]) = "true",
     params |-> <<>>]

-----------------------------------------------------------------------------
(* inherits(): the base-class list of a record *)

RECURSIVE Flatten(_, _)
\* seqs[i] + seqs[i+1] + ... : the += of a loop over lists
Flatten(seqs, i) == IF i > Len(seqs) THEN <<>> ELSE seqs[i] \o Flatten(seqs, i + 1)

TypeContentDef_inherits(c) == IF c.inherit THEN <<c.type_key>> ELSE <<>>

\* ContentDef.inherits, overridden by TypeContentDef and SequenceContentDef only
ContentDef_inherits(c) == IF c.kind = "type" THEN TypeContentDef_inherits(c) ELSE <<>>

SequenceContentDef_inherits(c) ==
    Flatten([i \in 1..Len(c.elements) |-> ContentDef_inherits(c.elements[i].element)], 1)

content_inherits(c) ==
    IF c.kind = "sequence" THEN SequenceContentDef_inherits(c) ELSE ContentDef_inherits(c)

TypeDef_inherits(t) ==
    LET inh == SelectSeq(t.member_groups, LAMBDA m : m.inherit)
    IN  [i \in 1..Len(inh) |-> inh[i].type_key]

\* mutant: the inherited attribute groups are listed before the content
ComplexTypeDef_inherits_GroupsFirst(t) ==
    (IF t.baseType # "" THEN <<t.baseType>> ELSE <<>>)
    \o TypeDef_inherits(t)
    \o (IF t.content.kind # "none" THEN content_inherits(t.content) ELSE <<>>)

ComplexTypeDef_inherits(t) ==
    (IF t.baseType # "" THEN <<t.baseType>> ELSE <<>>)
    \o (IF t.content.kind # "none" THEN content_inherits(t.content) ELSE <<>>)
    \o TypeDef_inherits(t)

GroupTypeDef_inherits(t) ==
    (IF t.content.kind # "none" THEN content_inherits(t.content) ELSE <<>>)
    \o TypeDef_inherits(t)

inherits(t) ==
    IF t.kind \in {"complex", "mixed"} THEN ComplexTypeDef_inherits(t)
    ELSE IF t.kind = "group" THEN GroupTypeDef_inherits(t)
    ELSE TypeDef_inherits(t)

-----------------------------------------------------------------------------
(* The declarations emitter: the fields of one emitted struct *)

Field(shape, type, member) == [shape |-> shape, type |-> type, member |-> member]

\* ContentDef.write_hdr_content: one plain field, nothing on NotImplementedError
ContentDef_write_hdr_content(c) ==
    IF is_inherited(c) THEN <<>>
    ELSE IF NotImplemented \in {generate_type(c), member_name(c)} THEN <<>>
    ELSE <<Field("scalar", generate_type(c), member_name(c))>>

ChoiceContentDef_write_hdr_content(c) ==
    IF c.unordered
    THEN [i \in 1..Len(c.choices) |->
             Field("list", generate_type(c.choices[i]), c.choices[i].member)]
    ELSE ContentDef_write_hdr_content(c)

AllContentDef_write_hdr_content(c) ==
    Flatten([i \in 1..Len(c.elements) |->
        LET e == c.elements[i].element
        IN  IF c.elements[i].optional
            THEN <<Field("optional", generate_type(e), member_name(e))>>
            ELSE IF e.kind = "choice" THEN ChoiceContentDef_write_hdr_content(e)
            ELSE ContentDef_write_hdr_content(e)], 1)

element_write_hdr_content(c) ==
    IF c.kind = "choice" THEN ChoiceContentDef_write_hdr_content(c)
    ELSE IF c.kind = "all" THEN AllContentDef_write_hdr_content(c)
    ELSE ContentDef_write_hdr_content(c)

\* SequenceContentDef.write_hdr_content: the fields declared for one slot
slot_write_hdr_content(elem) ==
    IF is_inherited(elem.element) THEN <<>>
    ELSE IF is_single(elem) THEN element_write_hdr_content(elem.element)
    ELSE IF is_optional(elem)
    THEN <<Field("optional", generate_type(elem.element), member_name(elem.element))>>
    ELSE IF IsUnorderedChoice(elem.element) THEN element_write_hdr_content(elem.element)
    ELSE <<Field("list", generate_type(elem.element), member_name(elem.element))>>

\* per slot, the fields it declares
SequenceContentDef_write_hdr_content(c) ==
    [i \in 1..Len(c.elements) |-> slot_write_hdr_content(c.elements[i])]

\* type_def.write_hdr_content of each TypeDef class
TypeDef_write_hdr_content(t) ==
    LET cont == IF t.content.kind = "sequence"
                THEN SequenceContentDef_write_hdr_content(t.content) ELSE <<>>
    IN  IF t.kind = "simple" THEN <<<<Field("scalar", t.contentCppType, t.contentMember)>>>>
        ELSE IF t.kind = "mixed"
        THEN Append(cont, <<Field("optional", t.contentCppType, t.contentMember)>>)
        ELSE IF t.kind \in {"complex", "group"} THEN cont
        ELSE <<>>

\* write_hdr_types: the struct emitted for one TypeDef
write_hdr_type(t) ==
    LET named == SelectSeq(t.member_groups, LAMBDA m : ~m.inherit)
    IN  [name |-> t.name,
         inh |-> inherits(t),
         attribs |-> [i \in 1..Len(t.members) |-> HdrAttribField(t.members[i])],
         groups |-> [i \in 1..Len(named) |->
                        Field("scalar", named[i].type_key, named[i].member)],
         content |-> TypeDef_write_hdr_content(t)]

\* a parameter of an emitted method, with its default argument ("": none)
Param(name, default) == [name |-> name, default |-> default]

\* write_hdr_methods: the prototype of read_<name>
read_prototype(t) ==
    IF t.kind = "group"
    THEN [returns |-> "bool",
          params |-> <<Param("reader", ""), Param("data", ""), Param("hasNext", "")>>]
    ELSE IF t.kind \in {"complex", "mixed"}
    THEN [returns |-> "void",
          params |-> <<Param("reader", ""), Param("data", ""),
                       Param("keepElementOpen", "false")>>]
    ELSE [returns |-> "void", params |-> <<Param("reader", ""), Param("data", "")>>]

\* write_src_types: the head of the definition of read_<name>
read_definition(t) ==
    IF t.kind = "group"
    THEN [returns |-> "bool", params |-> <<"reader", "data", "hasNext">>]
    ELSE IF t.kind \in {"complex", "mixed"}
    THEN [returns |-> "void", params |-> <<"reader", "data", "keepElementOpen">>]
    ELSE [returns |-> "void", params |-> <<"reader", "data">>]

\* everything the with-block of hdr_path writes
write_hdr(tdefs, stypes, roots, meths) ==
    [state |-> "written",
     simple_types |-> stypes,
     predefs |-> SelectSeq([i \in 1..Len(tdefs) |-> tdefs[i].name],
                           LAMBDA n : \E i \in 1..Len(tdefs) :
                                         tdefs[i].name = n /\ tdefs[i].declare),
     types |-> [i \in 1..Len(tdefs) |-> write_hdr_type(tdefs[i])],
     readDocument |-> [i \in 1..Len(roots) |-> generate_type(roots[i])],
     methods |-> meths,
     readers |-> [i \in 1..Len(tdefs) |-> [method |-> "read_" \o tdefs[i].name,
                                           sig |-> read_prototype(tdefs[i])]]]

-----------------------------------------------------------------------------
(* The reader emitter: the code emitted for one record *)

Write(member, op) == [member |-> member, op |-> op]

\* the members of data the code of one slot stores into, and how: "read" (a
\* reader is handed data.<member>), "move" (data.<member> = std::move(_element))
\* or "append" (data.<member>.append(...))
slot_writes(elem) ==
    LET c == elem.element
        branch == SlotBranch(elem)
        alts == IF c.kind = "choice"
                THEN {Write(c.choices[i].member, "append") : i \in 1..Len(c.choices)}
                ELSE {}
    IN  IF c.kind = "all" THEN {}
        ELSE IF branch = "direct" THEN {Write(Target(c), "read")}
        ELSE IF branch = "group_loop" THEN {Write(member_name(c), "append")}
        ELSE IF branch = "single"
        THEN (IF IsUnorderedChoice(c) THEN alts ELSE {Write(Target(c), "read")})
        ELSE IF branch = "optional"
        THEN (IF IsUnorderedChoice(c) THEN alts ELSE {})
             \cup {Write(member_name(c), "move")}
        ELSE IF branch = "unordered" THEN alts
        ELSE {Write(member_name(c), "append")}

\* locals the code of one slot names without a declaration in scope: the
\* loop of an unordered Choice tests _max and _total, which only the
\* unordered branch of the Sequence declares
slot_undeclared(elem) ==
    IF IsUnorderedChoice(elem.element) /\ Len(elem.element.choices) > 0
       /\ SlotBranch(elem) \in {"single", "optional"}
    THEN {"_max", "_total"}
    ELSE {}

\* the readers called by the code of an element, in emission order;
\* xml_name() of a Choice inside an All raises NotImplementedError
element_calls(c) ==
    IF c.kind = "type"
    THEN [kind |-> "calls", list |-> <<[name |-> c.name, call |-> read_method(c)]>>]
    ELSE IF c.kind = "choice"
    THEN [kind |-> "calls",
          list |-> [i \in 1..Len(c.choices) |->
                       [name |-> c.choices[i].name, call |-> read_method(c.choices[i])]]]
    ELSE IF \E i \in 1..Len(c.elements) : xml_name(c.elements[i].element) = NotImplemented
    THEN Err("NotImplementedError")
    ELSE [kind |-> "calls",
          list |-> [i \in 1..Len(c.elements) |->
                       [name |-> xml_name(c.elements[i].element),
                        call |-> read_method(c.elements[i].element)]]]

\* SequenceContentDef.write_src_content: the code of one slot
slot_code(elem, calls) ==
    IF IsErr(calls) THEN calls
    ELSE [kind |-> "slot", branch |-> SlotBranch(elem), min |-> elem.min,
          max |-> elem.max, calls |-> calls.list, writes |-> slot_writes(elem),
          undeclared |-> slot_undeclared(elem)]

slot_write_src_content(elem) == slot_code(elem, element_calls(elem.element))

\* type_def.write_src_content of each TypeDef class; an exception raised
\* while a slot is emitted ends the emission
content_code(t, slots) ==
        IF \E i \in 1..Len(slots) : IsErr(slots[i])
        THEN Err("NotImplementedError")
        ELSE [kind |-> "code",
              text |-> IF t.kind = "simple" THEN "readContent<" \o t.contentCppType \o ">"
                       ELSE IF t.kind = "mixed"
                       THEN "convertData<" \o t.contentCppType \o ">"
                       ELSE "",
              member |-> t.contentMember,
              slots |-> slots]

TypeDef_write_src_content(t) ==
    content_code(t, IF t.content.kind = "sequence"
                    THEN [i \in 1..Len(t.content.elements) |->
                             slot_write_src_content(t.content.elements[i])]
                    ELSE <<>>)

\* the reader of a TypeDef whose content emits as cont
reader_of(t, cont) ==
        IF IsErr(cont) THEN cont
        ELSE [kind |-> "reader",
              method |-> "read_" \o t.name,
              sig |-> read_definition(t),
              attribs |-> [i \in 1..Len(t.members) |->
                  [member |-> t.members[i].member,
                   call |-> IF t.members[i].required THEN "readRequiredAttrib"
                            ELSE "readOptionalAttrib",
                   type |-> t.members[i].cppType,
                   key |-> t.members[i].name,
                   default |-> IF t.members[i].required THEN None
                               ELSE t.members[i].default]],
              groups |-> [i \in 1..Len(t.member_groups) |->
                  [call |-> "read_" \o t.member_groups[i].type_key,
                   target |-> Target(t.member_groups[i])]],
              base |-> t.baseType,
              content |-> cont]

\* write_src_types: the reader emitted for one TypeDef
write_src_type(t) == reader_of(t, TypeDef_write_src_content(t))

\* index of the first reader that could not be emitted, 0 if none
FirstFailing(readers) ==
    IF \E i \in 1..Len(readers) : IsErr(readers[i])
    THEN CHOOSE i \in 1..Len(readers) :
            /\ IsErr(readers[i])
            /\ \A j \in 1..(i - 1) : ~IsErr(readers[j])
    ELSE 0

\* the file as the with-block leaves it: all readers and the converters, or
\* the readers before the one whose emission raised
src_file(readers, bad, stypes, roots) ==
    [state |-> IF bad = 0 THEN "written" ELSE "partial",
     readDocument |-> [i \in 1..Len(roots) |->
                          [name |-> roots[i].name, call |-> read_method(roots[i])]],
     types |-> SubSeq(readers, 1, IF bad = 0 THEN Len(readers) ELSE bad - 1),
     converters |-> IF bad = 0 THEN stypes ELSE <<>>]

src_file_of(readers, stypes, roots) ==
    src_file(readers, FirstFailing(readers), stypes, roots)

\* what the with-block of src_path has written when it ends
write_src(tdefs, stypes, roots) ==
    src_file_of([i \in 1..Len(tdefs) |-> write_src_type(tdefs[i])], stypes, roots)

-----------------------------------------------------------------------------
(* The driver: XmlCodeGenerator.xmlcodegen, run after run in one process *)

XsNamespace == "http://www.w3.org/2001/XMLSchema"

\* xtag[0:4] == "qxg:" for the annotation tags that are not qxg:method
IsQxgTag(tag) == tag \in {"qxg:config", "qxg:include", "qxg:param"}

\* an exception leaves xmlcodegen
GenFail(msg) ==
    /\ gpc' = "failed"
    /\ gerr' = msg

\* after the pre-pass: parse, ns_map["xs"], the config and the three empty
\* lists; v is what xml_verify did, conf the configuration read
StartWith(v, conf) ==
    /\ stderr' = stderr \o v.printed
    /\ IF v.raised # ""
       THEN /\ GenFail(v.raised)
            /\ UNCHANGED <<ns_map, config, type_defs, simple_types, root_elements, child_i>>
       ELSE /\ ns_map' = [p \in DOMAIN ns_map \cup {"xs"} |->
                             IF p = "xs" THEN XsNamespace ELSE ns_map[p]]
            /\ IF IsErr(conf)
               THEN /\ GenFail(conf.msg)
                    /\ config' = conf.partial
                    /\ UNCHANGED <<type_defs, simple_types, root_elements, child_i>>
               ELSE /\ gpc' = "loop"
                    /\ gerr' = ""
                    /\ config' = conf
                    /\ type_defs' = <<>>
                    /\ simple_types' = <<>>
                    /\ root_elements' = <<>>
                    /\ child_i' = 1

\* XmlCodeGenerator().xmlcodegen(res.xsd, res.hdr, res.src, res.skip_verify):
\* the pre-pass runs unless --skip-verify was given; what it finds is the
\* environment's
Start ==
    /\ gpc = "idle"
    /\ ~args.verify
    /\ \E env \in VerifyEnvs :
          StartWith(IF args.skip_verify THEN NotVerified ELSE xml_verify(env, FALSE),
                    config_of(schema, args.xsd))
    /\ UNCHANGED <<schema, xs_type_map, methods, files, run, args>>
    /\ UNCHANGED <<readerVars, members, attribs, attr_i>>

\* --verify: xml_verify(res.xsd, required=True) and nothing else
VerifyOnly ==
    /\ gpc = "idle"
    /\ args.verify
    /\ \E env \in VerifyEnvs :
          /\ stderr' = stderr \o xml_verify(env, TRUE).printed
          /\ IF xml_verify(env, TRUE).raised # ""
             THEN GenFail(xml_verify(env, TRUE).raised)
             ELSE gpc' = "verified" /\ UNCHANGED gerr
    /\ UNCHANGED <<schema, child_i, type_defs, root_elements, xs_type_map, ns_map,
                   methods, files, run, args, config>>
    /\ UNCHANGED <<readerVars, attrVars>>

\* what the branch of the top-level loop taken for a child reads it as
read_child(child, tmap, meths) ==
    CASE child.tag = "xs:complexType" -> read_type(child, tmap, meths)
      [] child.tag = "xs:element" -> read_type_content(child, FALSE, FALSE, tmap, meths)
      [] child.tag = "xs:group" -> read_group(child, tmap, meths)
      [] child.tag = "xs:attributeGroup" -> read_attr_group(child, tmap)
      [] child.tag = "xs:simpleType" -> read_simple_type(child, tmap)
      [] child.tag = "qxg:method" -> [kind |-> "method"]
      [] IsQxgTag(child.tag) -> [kind |-> "pass"]
      [] OTHER -> Err("XSD-Type is not supported as top level element")

\* where the branch puts what it read
StoreChild(xtag, child, r) ==
    IF IsErr(r)
    THEN /\ GenFail(r.msg)
         /\ UNCHANGED <<child_i, type_defs, root_elements, simple_types,
                        xs_type_map, methods>>
    ELSE /\ child_i' = child_i + 1
         /\ type_defs' = IF xtag \in {"xs:complexType", "xs:group", "xs:attributeGroup"}
                         THEN Append(type_defs, r) ELSE type_defs
         /\ root_elements' = IF xtag = "xs:element"
                             THEN Append(root_elements, r) ELSE root_elements
         /\ simple_types' = IF xtag = "xs:simpleType"
                            THEN Append(simple_types, r) ELSE simple_types
         /\ xs_type_map' = IF xtag = "xs:simpleType"
                           THEN RegisterSimpleType(xs_type_map, r.name)
                           ELSE xs_type_map
         /\ methods' = IF xtag = "qxg:method"
                       THEN Append(methods, read_qxg_method(child)) ELSE methods
         /\ UNCHANGED <<gpc, gerr>>

\* mutant: the header file is opened before the loop over the children
ReadChild_HdrOpened ==
    /\ gpc = "loop"
    /\ child_i <= Len(schema)
    /\ StoreChild(schema[child_i].tag, schema[child_i],
                  read_child(schema[child_i], xs_type_map, methods))
    /\ files' = [files EXCEPT ![run].hdr = write_hdr(<<>>, <<>>, <<>>, <<>>)]
    /\ UNCHANGED <<schema, ns_map, run, args, config, stderr>>
    /\ UNCHANGED <<readerVars, members, attribs, attr_i>>

\* one iteration of "for child in root"
ReadChild ==
    /\ gpc = "loop"
    /\ child_i <= Len(schema)
    /\ StoreChild(schema[child_i].tag, schema[child_i],
                  read_child(schema[child_i], xs_type_map, methods))
    /\ UNCHANGED <<schema, ns_map, files, run, args, config, stderr>>
    /\ UNCHANGED <<readerVars, members, attribs, attr_i>>

\* mutant: the declaration emitter uses up the method list
WriteHdr_ConsumesMethods ==
    /\ gpc = "loop"
    /\ child_i > Len(schema)
    /\ files' = [files EXCEPT ![run].hdr =
                    write_hdr(type_defs, simple_types, root_elements, methods)]
    /\ gpc' = "src"
    /\ methods' = <<>>
    /\ UNCHANGED <<schema, child_i, type_defs, root_elements, xs_type_map, ns_map,
                   run, args, config, stderr, gerr>>
    /\ UNCHANGED <<readerVars, attrVars>>

\* with open(hdr_path, "w") as hdr: the five write_hdr_* calls
WriteHdr ==
    /\ gpc = "loop"
    /\ child_i > Len(schema)
    /\ \E opened \in BOOLEAN :
          IF ~opened
          THEN GenFail("OSError") /\ UNCHANGED files
          ELSE /\ files' = [files EXCEPT ![run].hdr =
                               write_hdr(type_defs, simple_types, root_elements, methods)]
               /\ gpc' = "src"
               /\ UNCHANGED gerr
    /\ UNCHANGED <<schema, child_i, type_defs, root_elements, xs_type_map, ns_map,
                   methods, run, args, config, stderr>>
    /\ UNCHANGED <<readerVars, attrVars>>

\* the with-block of src_path ends normally or with the emitter's exception
StoreSrc(out) ==
    /\ files' = [files EXCEPT ![run].src = out]
    /\ IF out.state = "written"
       THEN gpc' = "done" /\ UNCHANGED gerr
       ELSE GenFail("NotImplementedError")

\* with open(src_path, "w") as src: the four write_src_* calls
WriteSrc ==
    /\ gpc = "src"
    /\ \E opened \in BOOLEAN :
          IF ~opened
          THEN GenFail("OSError") /\ UNCHANGED files
          ELSE StoreSrc(write_src(type_defs, simple_types, root_elements))
    /\ UNCHANGED <<schema, child_i, type_defs, root_elements, xs_type_map, ns_map,
                   methods, run, args, config, stderr>>
    /\ UNCHANGED <<readerVars, attrVars>>

\* the process goes on to translate the same schema again into two other
\* paths, with XmlCodeGenerator() anew (fresh) or with the same instance
NewRun ==
    /\ gpc \in {"done", "failed"}
    /\ run < MaxRuns
    /\ \E fresh \in BOOLEAN :
          methods' = IF fresh THEN <<>> ELSE methods
    /\ run' = run + 1
    /\ gpc' = "idle"
    /\ gerr' = ""
    /\ child_i' = 1
    /\ type_defs' = <<>>
    /\ simple_types' = <<>>
    /\ root_elements' = <<>>
    /\ UNCHANGED <<schema, xs_type_map, ns_map, files, args, config, stderr>>
    /\ UNCHANGED <<readerVars, members, attribs, attr_i>>

\* no emitted reader is running
ReaderIdle ==
    /\ content = NoContent
    /\ doc = <<>>
    /\ keepElementOpen = FALSE
    /\ pc = "idle"
    /\ slot = 1
    /\ pos = 0
    /\ hasNext = FALSE
    /\ data = <<>>
    /\ usedElements = {}
    /\ err = ""
    /\ errPos = 0
    /\ callers = <<>>
    /\ read_methods = <<>>
    /\ reading = ""
    /\ tokens = <<>>
    /\ contentText = ""
    /\ members = <<>>
    /\ simple_types = <<>>
    /\ attribs = <<>>
    /\ attr_i = 1

-----------------------------------------------------------------------------
(* Schemas of one top-level definition, for the two emitters *)

\* the sequences over S of length lo..hi
SeqsOf(S, lo, hi) == UNION {[1..k -> S] : k \in lo..hi}

Inherit == ("qxg:inherit" :> "true")

Member(m) == ("qxg:member" :> m)

GroupRefNode(ref, attrs, o) ==
    Node("xs:group", [ref |-> ref] @@ attrs @@ OccursAttrs(o), <<>>)

ChoiceNode(attrs, o) ==
    Node("xs:choice", attrs @@ OccursAttrs(o),
         <<ElementNode("a", "A", <<"1", "1">>), ElementNode("b", "B", <<"1", "1">>)>>)

\* slots that inherit, and one that does not
InheritSlotNodes ==
    {ElementNode("e", "E", <<"1", "1">>),
     Node("xs:element", [name |-> "b", type |-> "B"] @@ Inherit, <<>>),
     GroupRefNode("G", Inherit, <<"1", "1">>),
     GroupRefNode("H", Inherit, <<"1", "1">>)}

\* element, group and choice slots under the occurrences that select each
\* branch of the two emitters
SlotNodes ==
    InheritSlotNodes
    \cup {ElementNode("e", "E", o) : o \in {<<"0", "1">>, <<"0", "unbounded">>, <<"2", "2">>}}
    \cup {GroupRefNode("G", Member("g"), o) : o \in {<<"1", "1">>, <<"2", "2">>}}
    \cup {ChoiceNode(Member("c"), o) :
             o \in {<<"1", "1">>, <<"0", "1">>, <<"0", "unbounded">>}}
    \cup {ChoiceNode(("qxg:unordered" :> "true"), o) :
             o \in {<<"1", "1">>, <<"0", "1">>, <<"0", "unbounded">>, <<"1", "3">>}}

\* content given without an xs:sequence around it
SingleNodes ==
    {GroupRefNode("G", Member("g"), o) : o \in {<<"1", "1">>, <<"0", "1">>}}
    \cup {ElementNode("e", "E", <<"0", "1">>),
          ChoiceNode(Member("c"), <<"0", "unbounded">>),
          Node("xs:all", NoAttrs, <<ElementNode("a", "A", <<"1", "1">>),
                                    ElementNode("b", "B", <<"0", "1">>)>>)}

AttrGroupRefNodes ==
    {Node("xs:attributeGroup", [ref |-> "AG"] @@ Inherit, <<>>),
     Node("xs:attributeGroup", [ref |-> "AH"] @@ Inherit, <<>>),
     Node("xs:attributeGroup", [ref |-> "AG"] @@ Member("ag"), <<>>)}

SequenceNode(kids) == Node("xs:sequence", NoAttrs, kids)

ExtensionNode(wrapper, base, kids) ==
    Node(wrapper, NoAttrs, <<Node("xs:extension", [base |-> base], kids)>>)

BuildTypeNodes ==
    {ComplexTypeNode("T", <<SequenceNode(kids)>>) : kids \in SeqsOf(SlotNodes, 1, MaxSlots)}
    \cup {ComplexTypeNode("T", <<k>>) : k \in SingleNodes}
    \cup {ComplexTypeNode("T", <<SequenceNode(x[1])>> \o x[2]) :
             x \in SeqsOf(InheritSlotNodes, 0, MaxSlots)
                     \X SeqsOf(AttrGroupRefNodes, 0, MaxGroupRefs)}
    \cup {ComplexTypeNode("T", <<ExtensionNode("xs:complexContent", "Base",
                                               <<SequenceNode(x[1])>> \o x[2])>>) :
             x \in SeqsOf(InheritSlotNodes, 0, MaxSlots)
                     \X SeqsOf(AttrGroupRefNodes, 0, MaxGroupRefs)}
    \cup {Node("xs:complexType", [name |-> "T", mixed |-> "true"], <<SequenceNode(kids)>>) :
             kids \in SeqsOf(InheritSlotNodes, 1, 1)}
    \cup {ComplexTypeNode("S", <<ExtensionNode("xs:simpleContent", "xs:string", refs)>>) :
             refs \in SeqsOf(AttrGroupRefNodes, 0, 1)}
    \cup {Node("xs:group", [name |-> "G"], <<SequenceNode(kids)>>) :
             kids \in SeqsOf(InheritSlotNodes, 1, 1)}
    \cup {Node("xs:attributeGroup", [name |-> "AG"], refs) :
             refs \in SeqsOf(AttrGroupRefNodes, 1, 1)}

InitBuild ==
    /\ schema \in {<<node>> : node \in BuildTypeNodes}
    /\ GenIdle
    /\ ReaderIdle

NextBuild ==
    \/ Start
    \/ ReadChild
    \/ WriteHdr
    \/ WriteSrc

SpecBuild == InitBuild /\ [][NextBuild]_vars

-----------------------------------------------------------------------------
(* Whole schemas, translated once or twice in one process *)

EnumColorNode ==
    Node("xs:simpleType", [name |-> "Color"],
         <<Node("xs:restriction", [base |-> "xs:string"],
                <<Node("xs:enumeration", [value |-> "red"], <<>>)>>)>>)

GenNodes ==
    {ComplexTypeNode("T", <<SequenceNode(<<ElementNode("e", "Color", <<"1", "1">>)>>)>>),
     EnumColorNode,
     ComplexTypeNode("A", <<Node("xs:all", NoAttrs, <<ChoiceNode(Member("c"), <<"1", "1">>)>>)>>),
     Node("qxg:method", [name |-> "readIt", type |-> "QString"], <<>>),
     Node("xs:element", [name |-> "root", type |-> "T"], <<>>),
     Node("xs:group", [name |-> "G"], <<SequenceNode(<<ElementNode("g", "xs:string", <<"1", "1">>)>>)>>),
     ComplexTypeNode("U", <<SequenceNode(<<GroupRefNode("G", Inherit, <<"1", "1">>)>>),
                            Node("xs:attributeGroup", [ref |-> "AG"] @@ Member("ag"), <<>>)>>),
     Node("xs:attributeGroup", [name |-> "AG"],
          <<Node("xs:attribute", [name |-> "x", type |-> "xs:int"], <<>>)>>),
     Node("xs:notation", [name |-> "n"], <<>>)}

InitGen ==
    /\ schema \in SeqsOf(GenNodes, 1, MaxSchema)
    /\ GenIdle
    /\ ReaderIdle

NextGen ==
    \/ Start
    \/ ReadChild
    \/ WriteHdr
    \/ WriteSrc
    \/ NewRun

SpecGen == InitGen /\ [][NextGen]_vars

-----------------------------------------------------------------------------
(* Properties of the two emitters over one top-level definition (SpecBuild) *)

\* the declarations file of the current run is complete
HdrWritten == files[run].hdr.state = "written"

\* the definitions file of the current run is complete
SrcWritten == files[run].src.state = "written"

BaseOf(t) == IF t.baseType # "" THEN <<t.baseType>> ELSE <<>>

\* type_keys of the inherited leaves among the slots of the record's content
InheritedLeafKeys(t) ==
    LET slots == IF t.content.kind = "sequence" THEN t.content.elements ELSE <<>>
        inh == SelectSeq(slots, LAMBDA e : e.element.kind = "type" /\ e.element.inherit)
    IN  [i \in 1..Len(inh) |-> inh[i].element.type_key]

\* type_keys of the inherited attribute-group references of the record
InheritedGroupKeys(t) ==
    LET inh == SelectSeq(t.member_groups, LAMBDA m : m.inherit)
    IN  [i \in 1..Len(inh) |-> inh[i].type_key]

RECURSIVE Dedup(_)
\* the sequence without the later occurrences of a value
Dedup(q) ==
    IF q = <<>> THEN <<>>
    ELSE LET front == Dedup(SubSeq(q, 1, Len(q) - 1))
         IN  IF \E i \in 1..Len(front) : front[i] = q[Len(q)] THEN front
             ELSE Append(front, q[Len(q)])

ShapeOfBounds(elem) ==
    IF elem.min = 1 /\ elem.max = 1 THEN "scalar"
    ELSE IF elem.min = 0 /\ elem.max = 1 THEN "optional"
    ELSE "list"

\* how reader code stores into a field of a shape
OpOfShape(shape) ==
    IF shape = "scalar" THEN "read" ELSE IF shape = "optional" THEN "move" ELSE "append"

\* the fields a slot is to declare: one list per alternative for an
\* unordered Choice, else one field of the shape of the bounds
FieldsOfSlot(elem) ==
    LET c == elem.element
    IN  IF c.kind = "choice" /\ c.unordered
        THEN [j \in 1..Len(c.choices) |->
                 [shape |-> "list", type |-> generate_type(c.choices[j]),
                  member |-> c.choices[j].member]]
        ELSE <<[shape |-> ShapeOfBounds(elem), type |-> generate_type(c),
                member |-> c.member]>>

\* C7: for every non-inherited element, group or choice slot of a Sequence,
\* the declared fields are those the bounds call for ((1,1) scalar, (0,1)
\* optional, else list, an unordered Choice one list per alternative), and
\* the emitted reader code stores into exactly these fields in the way of
\* their shape, naming no local it has not declared.
C7_SlotShapes ==
    (HdrWritten /\ SrcWritten) =>
        \A i \in 1..Len(type_defs) :
            type_defs[i].content.kind = "sequence" =>
                \A k \in 1..Len(type_defs[i].content.elements) :
                    LET elem == type_defs[i].content.elements[k]
                        want == FieldsOfSlot(elem)
                        code == files[run].src.types[i].content.slots[k]
                    IN  (elem.element.kind \in {"type", "choice"}
                         /\ ~(elem.element.kind = "type" /\ elem.element.inherit)) =>
                            /\ files[run].hdr.types[i].content[k] = want
                            /\ code.writes = {[member |-> want[j].member,
                                               op |-> OpOfShape(want[j].shape)] :
                                                  j \in 1..Len(want)}
                            /\ code.undeclared = {}

-----------------------------------------------------------------------------
(* Properties of the driver over whole schemas (SpecGen) *)

\* C8: the generator keeps no state between runs: a second run over the
\* same schema, in the same process, writes the same declarations and
\* definitions as the first.
C8_SameOutputEachRun ==
    (run > 1 /\ gpc = "done" /\ files[1].src.state = "written") =>
        files[run] = files[1]

\* C9: a run that ends with an error has neither created nor written the
\* declarations file or the definitions file.
C9_NoPartialOutput ==
    gpc = "failed" => (files[run].hdr = NoFile /\ files[run].src = NoFile)

RECURSIVE Leaves(_)
\* the TypeContentDefs of a content
Leaves(c) ==
    CASE c.kind = "type" -> {c}
      [] c.kind = "choice" -> {c.choices[i] : i \in 1..Len(c.choices)}
      [] c.kind \in {"all", "sequence"} ->
            UNION {Leaves(c.elements[i].element) : i \in 1..Len(c.elements)}
      [] OTHER -> {}

\* the top-level definitions of that name among the given classes
Defined(kinds, name) ==
    {i \in 1..Len(type_defs) : type_defs[i].kind \in kinds /\ type_defs[i].name = name}

\* the type_key of a content leaf names exactly one group, or one record or
\* simple type; a leaf read by a declared method or as a basic type needs none
LeafResolves(c) ==
    IF c.is_group THEN Cardinality(Defined({"group"}, c.type_key)) = 1
    ELSE \/ c.is_basic_type
         \/ c.method.method # ""
         \/ Cardinality(Defined({"complex", "simple", "mixed"}, c.type_key)) = 1

\* C10: a schema naming an undefined type, group, attribute group or base is
\* rejected, so that in every IR that is emitted each type_key names exactly
\* one definition.
C10_TypeKeysResolve ==
    gpc = "done" =>
        /\ \A i \in 1..Len(root_elements) : LeafResolves(root_elements[i])
        /\ \A i \in 1..Len(type_defs) :
              /\ \A c \in Leaves(type_defs[i].content) : LeafResolves(c)
              /\ \A j \in 1..Len(type_defs[i].member_groups) :
                    Cardinality(Defined({"attrgroup"},
                                        type_defs[i].member_groups[j].type_key)) = 1
              /\ type_defs[i].baseType # "" =>
                    Cardinality(Defined({"complex", "simple", "mixed"},
                                        type_defs[i].baseType)) = 1

-----------------------------------------------------------------------------
(* Schemas of one top-level definition, well-formed or not, for the builder *)

IROccurs == {<<"1", "1">>, <<"0", "1">>, <<"2", "2">>, <<"0", "unbounded">>}

Unordered == ("qxg:unordered" :> "true")

InheritElementNode(name, type, o) ==
    Node("xs:element", [name |-> name, type |-> type] @@ Inherit @@ OccursAttrs(o), <<>>)

\* an element or group reference with or without qxg:inherit and qxg:member
IRLeafNodes(o) ==
    {ElementNode("e", "E", o),
     InheritElementNode("e", "E", o),
     Node("xs:element", [name |-> "e", type |-> "E"] @@ ("qxg:inherit" :> "false")
                            @@ OccursAttrs(o), <<>>),
     GroupRefNode("G", Member("g"), o),
     GroupRefNode("G", Inherit, o),
     GroupRefNode("G", NoAttrs, o)}

\* the children of an xs:choice: elements, nested choices and what is refused
IRChoiceKids ==
    LET a == ElementNode("a", "A", <<"1", "1">>)
        b == ElementNode("b", "B", <<"1", "1">>)
    IN  {<<a, b>>,
         <<a, Node("xs:choice", Member("n"), <<b>>), a>>,
         <<a, Node("xs:choice", NoAttrs, <<b>>)>>,
         <<a, Node("xs:choice", Unordered, <<b>>)>>,
         <<InheritElementNode("a", "A", <<"1", "1">>)>>,
         <<a, GroupRefNode("G", Member("g"), <<"1", "1">>)>>,
         <<a, SequenceNode(<<b>>)>>,
         <<a, Node("xs:all", NoAttrs, <<b>>)>>}

IRChoiceNodes ==
    {Node("xs:choice", x[1] @@ OccursAttrs(x[2]), x[3]) :
        x \in {Member("c"), Unordered, NoAttrs}
                \X {<<"1", "1">>, <<"0", "unbounded">>} \X IRChoiceKids}

\* the children of an xs:all
IRAllKids ==
    {ElementNode("a", "A", o) : o \in IROccurs \cup {<<"1", "3">>}}
    \cup {ElementNode("b", "B", <<"0", "1">>),
          InheritElementNode("b", "B", <<"1", "1">>),
          ChoiceNode(Member("c"), <<"1", "1">>),
          ChoiceNode(Member("c"), <<"0", "1">>),
          ChoiceNode(Unordered, <<"1", "1">>),
          SequenceNode(<<ElementNode("b", "B", <<"1", "1">>)>>),
          Node("xs:all", NoAttrs, <<ElementNode("b", "B", <<"1", "1">>)>>),
          GroupRefNode("G", Member("g"), <<"1", "1">>)}

IRAllNodes == {Node("xs:all", NoAttrs, kids) : kids \in SeqsOf(IRAllKids, 1, 2)}

\* the children of an xs:sequence
IRSlotNodes ==
    {ElementNode("e", "E", <<"1", "1">>)}
    \cup {InheritElementNode("i", "I", o) : o \in {<<"1", "1">>, <<"0", "1">>, <<"2", "2">>}}
    \cup {GroupRefNode("G", Member("g"), o) : o \in {<<"1", "1">>, <<"2", "2">>, <<"0", "1">>}}
    \cup {GroupRefNode("H", Inherit, <<"1", "1">>),
          GroupRefNode("H", NoAttrs, <<"1", "1">>),
          ChoiceNode(Member("c"), <<"1", "1">>),
          ChoiceNode(Unordered, <<"0", "unbounded">>),
          Node("xs:all", NoAttrs, <<ElementNode("a", "A", <<"1", "1">>)>>)}
    \cup {Node("xs:sequence", OccursAttrs(o),
               <<ElementNode("x", "X", <<"1", "1">>), ElementNode("y", "Y", <<"0", "1">>)>>) :
             o \in {<<"1", "1">>, <<"0", "1">>}}
    \cup {SequenceNode(<<InheritElementNode("j", "J", <<"1", "1">>),
                         SequenceNode(<<ElementNode("z", "Z", <<"2", "2">>)>>)>>)}

IRSingleNodes ==
    UNION {IRLeafNodes(o) : o \in IROccurs} \cup IRChoiceNodes \cup IRAllNodes

\* what a complexType holds: plain content, or xs:simpleContent or
\* xs:complexContent with or without an xs:extension, with or without @base
IRTypeBodies ==
    LET body == <<SequenceNode(<<ElementNode("e", "E", <<"1", "1">>)>>)>>
    IN  {body,
         <<ExtensionNode("xs:simpleContent", "xs:string", <<>>)>>,
         <<Node("xs:simpleContent", NoAttrs,
                <<Node("xs:restriction", [base |-> "xs:string"], <<>>)>>)>>,
         <<ExtensionNode("xs:complexContent", "Base", body)>>,
         <<Node("xs:complexContent", NoAttrs, <<Node("xs:extension", NoAttrs, body)>>)>>,
         <<Node("xs:complexContent", NoAttrs,
                <<Node("xs:restriction", [base |-> "Base"], body)>>)>>}

\* complexTypes with mixed absent, "true", "True" or "false"
IRHeadNodes ==
    {Node("xs:complexType", x[1], x[2]) :
        x \in {[name |-> "T"], [name |-> "T", mixed |-> "true"],
               [name |-> "T", mixed |-> "True"], [name |-> "T", mixed |-> "false"]}
              \X IRTypeBodies}

\* elements of a built-in type, with qxg:basicType absent, "true" or "false",
\* and an element of a user type marked qxg:basicType="true"
BuiltinLeafNodes ==
    {Node("xs:element", [name |-> "b", type |-> t] @@ x, <<>>) :
        t \in {"xs:int", "xs:string"},
        x \in {NoAttrs, "qxg:basicType" :> "true", "qxg:basicType" :> "True",
               "qxg:basicType" :> "false"}}
    \cup {Node("xs:element", [name |-> "b", type |-> "MyInt"] @@ ("qxg:basicType" :> "true"), <<>>)}

IRTypeNodes ==
    {ComplexTypeNode("T", <<SequenceNode(kids)>>) : kids \in SeqsOf(IRSlotNodes, 1, MaxSlots)}
    \cup IRHeadNodes
    \cup {ComplexTypeNode("T", <<SequenceNode(<<k>>)>>) : k \in BuiltinLeafNodes}
    \cup {ComplexTypeNode("T", <<k>>) : k \in IRSingleNodes}
    \cup {Node("xs:group", [name |-> "G"], <<k>>) :
             k \in IRLeafNodes(<<"1", "1">>) \cup IRLeafNodes(<<"0", "unbounded">>)}
    \cup {Node("xs:element", [name |-> "root", type |-> "T"], <<>>),
          Node("xs:element", [name |-> "root", type |-> "T"] @@ Inherit, <<>>)}

InitIR ==
    /\ schema \in {<<node>> : node \in IRTypeNodes}
    /\ GenIdle
    /\ ReaderIdle

SpecIR == InitIR /\ [][NextBuild]_vars

-----------------------------------------------------------------------------
(* Schemas with a top-level child the builder rejects, among ones it reads *)

RejectedNodes ==
    {ComplexTypeNode("N", <<SequenceNode(<<Node("xs:all", NoAttrs,
                                <<ElementNode("a", "A", <<"1", "1">>)>>)>>)>>),
     ComplexTypeNode("N", <<SequenceNode(<<Node("xs:any", NoAttrs, <<>>)>>)>>),
     ComplexTypeNode("N", <<SequenceNode(<<ChoiceNode(NoAttrs, <<"1", "1">>)>>)>>),
     Node("xs:group", [name |-> "N"], <<SequenceNode(<<GroupRefNode("G", NoAttrs, <<"1", "1">>)>>)>>),
     ComplexTypeNode("N", <<Node("xs:attributeGroup", [ref |-> "AG"], <<>>)>>),
     ComplexTypeNode("N", <<Node("xs:all", NoAttrs,
                                <<InheritElementNode("a", "A", <<"1", "1">>)>>)>>),
     Node("xs:element", [name |-> "root", type |-> "T"] @@ Inherit, <<>>),
     ComplexTypeNode("N", <<SequenceNode(<<Node("xs:element",
                                [name |-> "m", type |-> "M"] @@ ("qxg:method" :> "readM"), <<>>)>>)>>),
     Node("xs:notation", [name |-> "n"], <<>>)}

AcceptedNodes ==
    {ComplexTypeNode("T", <<SequenceNode(<<ElementNode("e", "Color", <<"1", "1">>)>>)>>),
     EnumColorNode,
     Node("qxg:method", [name |-> "readIt", type |-> "QString"], <<>>),
     Node("xs:element", [name |-> "root", type |-> "T"], <<>>)}

\* the children read before the rejected one, the rejected one if any, and
\* the child after it if any
InitReject ==
    /\ schema \in {front \o bad \o back :
                       front \in SeqsOf(AcceptedNodes, 0, MaxSchema - 1),
                       bad \in {<<>>} \cup {<<n>> : n \in RejectedNodes},
                       back \in SeqsOf(AcceptedNodes, 0, 1)} \ {<<>>}
    /\ GenIdle
    /\ ReaderIdle

SpecReject == InitReject /\ [][NextGen]_vars

-----------------------------------------------------------------------------
(* Command lines, and schemas with and without a qxg:config child *)

XsdPaths ==
    {<<"s", "c", "h", "e", "m", "a", ".", "x", "s", "d">>,
     <<"d", "i", "r", "/", "m", "y", "_", "t", "y", "p", "e", "s", ".", "x", "s", "d">>,
     <<"u", "s", "e", "r", "D", "a", "t", "a", ".", "v", "2", ".", "x", "s", "d">>}

ArgSets == [xsd : XsdPaths, verify : BOOLEAN, skip_verify : BOOLEAN]

ConfigNodes ==
    {Node("qxg:config", NoAttrs, <<>>),
     Node("qxg:config", [class |-> <<"M", "y">>], <<>>),
     Node("qxg:config", [prefix |-> "EXPORT", visibility |-> "Public", stdcompat |-> "True"],
          <<Node("qxg:include", [text |-> "QtCore", local |-> "true"], <<>>)>>),
     Node("qxg:config", [visibility |-> "bogus", ns |-> "app"], <<>>)}

ConfNodes ==
    ConfigNodes
    \cup {ComplexTypeNode("T", <<SequenceNode(<<ElementNode("e", "E", <<"1", "1">>)>>)>>)}

InitConf ==
    /\ schema \in SeqsOf(ConfNodes, 1, MaxSchema)
    /\ GenFresh
    /\ args \in ArgSets
    /\ ReaderIdle

NextConf ==
    \/ Start
    \/ VerifyOnly
    \/ ReadChild
    \/ WriteHdr
    \/ WriteSrc

SpecConf == InitConf /\ [][NextConf]_vars

-----------------------------------------------------------------------------
(* A record that extends another, and the documents its reader is run on *)

\* complexType D { complexContent { extension base="B" { kids } } }
ExtendingNode(name, base, kids) ==
    ComplexTypeNode(name,
        <<Node("xs:complexContent", NoAttrs,
            <<Node("xs:extension", [base |-> base], kids)>>)>>)

ExtOccurs == {<<"1", "1">>, <<"0", "1">>, <<"0", "unbounded">>, <<"1", "2">>}

\* B { } and B { sequence { x: X [min..max] } }
BaseTypeNodes ==
    {ComplexTypeNode("B", <<>>)}
    \cup {ComplexTypeNode("B", <<Node("xs:sequence", NoAttrs,
             <<ElementNode("x", "X", o)>>)>>) : o \in ExtOccurs}

\* D : B { } and D : B { sequence { y: Y [min..max] } }
DerivedTypeNodes ==
    {ExtendingNode("D", "B", <<>>)}
    \cup {ExtendingNode("D", "B", <<Node("xs:sequence", NoAttrs,
             <<ElementNode("y", "Y", o)>>)>>) : o \in ExtOccurs}

\* the reader methods emitted for the records of a schema, by record name
read_methods_of(tdefs) ==
    [n \in {tdefs[i].name : i \in 1..Len(tdefs)} |->
        LET t == tdefs[CHOOSE i \in 1..Len(tdefs) : tdefs[i].name = n]
        IN  [base |-> t.baseType, content |-> t.content, kind |-> t.kind,
             contentMember |-> t.contentMember, contentCppType |-> t.contentCppType]]

ExtNames == {"x", "y", "ex"}

InitExt ==
    /\ \E b \in BaseTypeNodes, d \in DerivedTypeNodes :
          /\ schema = <<b, d>>
          /\ read_methods =
                read_methods_of(<<read_type(b, XsTypeMap, <<>>), read_type(d, XsTypeMap, <<>>)>>)
    /\ reading = "D"
    /\ tokens = <<>>
    /\ contentText = ""
    /\ content = read_methods["D"].content
    /\ doc \in UNION {[1..n -> ExtNames] : n \in 0..MaxChildren}
    /\ data = [m \in DataMembers(read_methods["B"].content)
                     \cup DataMembers(read_methods["D"].content) |-> <<>>]
    /\ keepElementOpen \in BOOLEAN
    /\ pc = "base"
    /\ slot = 1
    /\ pos = 0
    /\ hasNext = FALSE
    /\ usedElements = {}
    /\ err = ""
    /\ errPos = 0
    /\ callers = <<>>
    /\ members = <<>>
    /\ simple_types = <<>>
    /\ attribs = <<>>
    /\ attr_i = 1
    /\ GenIdle

NextExt ==
    \/ CallBase
    \/ ReturnBase
    \/ Begin
    \/ SlotSingle
    \/ SlotOptional
    \/ ListIter
    \/ ListExit
    \/ Finish

SpecExt == InitExt /\ [][NextExt]_vars

-----------------------------------------------------------------------------
(* Mixed records, and the text and children their reader is run on *)

MaxTokens == 2      \* most raw tokens before the first child or the end tag

\* complexType T mixed="true" { [sequence { x: X [0..1] }] }, the text read as
\* QString, as the declared enum Color or as int
MixedTypeNodes ==
    {Node("xs:complexType", [name |-> "T", mixed |-> "true"] @@ x[1], x[2]) :
        x \in {NoAttrs, ("qxg:type" :> "Color"), ("qxg:type" :> "int")}
              \X {<<>>, <<SequenceNode(<<ElementNode("x", "X", <<"0", "1">>)>>)>>}}

\* what reader.readNext() can yield before a start or end tag
RawTokens ==
    {[type |-> "Characters", text |-> "re"], [type |-> "Characters", text |-> "d"],
     [type |-> "EntityReference", text |-> "red"], [type |-> "Comment", text |-> "c"],
     [type |-> "DTD", text |-> ""]}

InitMixed ==
    /\ \E node \in MixedTypeNodes :
          LET def == read_simple_type(EnumColorNode, XsTypeMap)
          IN  /\ schema = <<EnumColorNode, node>>
              /\ simple_types = <<def>>
              /\ read_methods = read_methods_of(
                    <<read_type(node, RegisterSimpleType(XsTypeMap, def.name), <<>>)>>)
    /\ reading = "T"
    /\ content = read_methods["T"].content
    /\ doc \in UNION {[1..n -> {"x", "ex"}] : n \in 0..MaxChildren}
    /\ tokens \in UNION {[1..n -> RawTokens] : n \in 0..MaxTokens}
    /\ contentText = ""
    /\ data = [m \in DataMembers(content) \cup {read_methods["T"].contentMember} |-> <<>>]
    /\ keepElementOpen \in BOOLEAN
    /\ pc = "text"
    /\ slot = 1
    /\ pos = 0
    /\ hasNext = FALSE
    /\ usedElements = {}
    /\ err = ""
    /\ errPos = 0
    /\ callers = <<>>
    /\ members = <<>>
    /\ attribs = <<>>
    /\ attr_i = 1
    /\ GenIdle

NextMixed ==
    \/ MixedReadNext
    \/ MixedStop
    \/ SlotOptional
    \/ Finish

SpecMixed == InitMixed /\ [][NextMixed]_vars

-----------------------------------------------------------------------------
(* The reader of a record with simple content *)

\* the text of the Characters and EntityReference tokens, in order
RECURSIVE TextOfTokens(_)
TextOfTokens(ts) ==
    IF ts = <<>> THEN ""
    ELSE (IF Head(ts).type \in {"Characters", "EntityReference"} THEN Head(ts).text ELSE "")
         \o TextOfTokens(Tail(ts))

\* readContent<T>(reader, data.member): readElementText with
\* ErrorOnUnexpectedElement, checkError, convertData<T>
ReadContent ==
    /\ UNCHANGED <<genVars, callers, read_methods, reading, contentText>>
    /\ UNCHANGED <<members, simple_types, attribs, attr_i>>
    /\ pc = "content"
    /\ tokens' = <<>>
    /\ LET T == ReaderOf(reading).contentCppType
           r == convertData(T, TextOfTokens(tokens))
       IN  IF doc # <<>> \/ \E i \in 1..Len(tokens) : tokens[i].type = "DTD"
           THEN Throw("checkError")
           ELSE IF ~r.ok THEN Throw(r.err)
           ELSE /\ data' = [data EXCEPT ![ReaderOf(reading).contentMember] = <<r.value>>]
                /\ pos' = 1
                /\ pc' = "done"
                /\ UNCHANGED <<content, doc, keepElementOpen, slot, hasNext,
                               usedElements, err, errPos>>

\* complexType S { simpleContent { extension base="xs:string" } }, the text
\* read as QString or as the declared enum Color
SimpleTypeNodes ==
    {ComplexTypeNode("S",
        <<Node("xs:simpleContent", NoAttrs, <<Node("xs:extension", a, <<>>)>>)>>) :
        a \in {[base |-> "xs:string"], [base |-> "Color"]}}

InitSimple ==
    /\ \E node \in SimpleTypeNodes :
          LET def == read_simple_type(EnumColorNode, XsTypeMap)
          IN  /\ schema = <<EnumColorNode, node>>
              /\ simple_types = <<def>>
              /\ read_methods = read_methods_of(
                    <<read_type(node, RegisterSimpleType(XsTypeMap, def.name), <<>>)>>)
    /\ reading = "S"
    /\ content = NoContent
    /\ doc \in UNION {[1..n -> {"x", "ex"}] : n \in 0..MaxChildren}
    /\ tokens \in UNION {[1..n -> RawTokens] : n \in 0..MaxTokens}
    /\ contentText = ""
    /\ data = [m \in {"data", read_methods["S"].contentMember} |-> <<>>]
    /\ keepElementOpen = FALSE
    /\ pc = "content"
    /\ slot = 1
    /\ pos = 0
    /\ hasNext = FALSE
    /\ usedElements = {}
    /\ err = ""
    /\ errPos = 0
    /\ callers = <<>>
    /\ members = <<>>
    /\ attribs = <<>>
    /\ attr_i = 1
    /\ GenIdle

-----------------------------------------------------------------------------
(* A record with a group slot, and the documents its reader is run on *)

\* group G { x: X } , G { x: X [0..1] } and G { x: X, y: Y [0..1] }
GroupDefNodes ==
    {Node("xs:group", [name |-> "G"], <<SequenceNode(kids)>>) :
        kids \in {<<ElementNode("x", "X", <<"1", "1">>)>>,
                  <<ElementNode("x", "X", <<"0", "1">>)>>,
                  <<ElementNode("x", "X", <<"1", "1">>),
                    ElementNode("y", "Y", <<"0", "1">>)>>}}

\* the group inherited with bounds (1,1), or held in member g with bounds (n,n)
GroupSlotNodes ==
    {GroupRefNode("G", Inherit, <<"1", "1">>)}
    \cup {GroupRefNode("G", Member("g"), <<IntStr[n + 1], IntStr[n + 1]>>) : n \in 1..MaxOccurs}

\* T { sequence { group G, [z: Z [0..1]] } }
GroupUserNodes ==
    {ComplexTypeNode("T", <<SequenceNode(<<g>> \o rest)>>) :
        g \in GroupSlotNodes, rest \in {<<>>, <<ElementNode("z", "Z", <<"0", "1">>)>>}}

InitGroup ==
    /\ \E g \in GroupDefNodes, t \in GroupUserNodes :
          /\ schema = <<g, t>>
          /\ read_methods = read_methods_of(
                <<read_group(g, XsTypeMap, <<>>), read_type(t, XsTypeMap, <<>>)>>)
    /\ reading = "T"
    /\ content = read_methods["T"].content
    /\ doc \in UNION {[1..n -> {"x", "y", "z"}] : n \in 0..MaxChildren}
    /\ tokens = <<>>
    /\ contentText = ""
    /\ data = [m \in DataMembers(content) \cup
                     (IF is_inherited(content.elements[1].element)
                      THEN DataMembers(read_methods["G"].content) ELSE {}) |-> <<>>]
    /\ keepElementOpen \in BOOLEAN
    /\ pc = "begin"
    /\ slot = 1
    /\ pos = 0
    /\ hasNext = FALSE
    /\ usedElements = {}
    /\ err = ""
    /\ errPos = 0
    /\ callers = <<>>
    /\ members = <<>>
    /\ simple_types = <<>>
    /\ attribs = <<>>
    /\ attr_i = 1
    /\ GenIdle

NextGroup ==
    \/ Begin
    \/ CallGroup
    \/ ReturnGroup
    \/ GroupLoopExit
    \/ SlotSingle
    \/ SlotOptional
    \/ Finish

SpecGroup == InitGroup /\ [][NextGroup]_vars

-----------------------------------------------------------------------------
(* All emitted readers together: records with and without a base, with a *)
(* group slot, mixed records and records with simple content              *)

InitReaders == InitRead \/ InitExt \/ InitGroup \/ InitMixed \/ InitSimple

NextReaders ==
    \/ Begin
    \/ SlotSingle
    \/ SlotOptional
    \/ ListIter
    \/ ListExit
    \/ AllIter
    \/ AllExit
    \/ Finish
    \/ CallBase
    \/ ReturnBase
    \/ CallGroup
    \/ ReturnGroup
    \/ GroupLoopExit
    \/ MixedReadNext
    \/ MixedStop
    \/ ReadContent

SpecReaders == InitReaders /\ [][NextReaders]_vars

-----------------------------------------------------------------------------
(* Invariants of the built IR *)

\* the slots of the content of a built top-level definition
SlotsOf(t) == IF t.content.kind = "sequence" THEN t.content.elements ELSE <<>>

\* C11: no Sequence slot of a built IR holds a Group reference with
\* min # max: an xs:group whose minOccurs and maxOccurs differ is rejected,
\* inside an xs:sequence and as the single content of a complexType or group.
C11_GroupFixedArity ==
    \A i \in 1..Len(type_defs) :
        \A k \in 1..Len(SlotsOf(type_defs[i])) :
            LET elem == SlotsOf(type_defs[i])[k]
            IN  is_group_type(elem.element) => elem.min = elem.max

\* the node carries qxg:inherit="true"
HasInherit(n) == "qxg:inherit" \in DOMAIN n.a /\ Lower(n.a["qxg:inherit"]) = "true"

IsLeafNode(n) == n.tag \in {"xs:element", "xs:group"}

RECURSIVE InheritUnder(_)
\* some element or group reference below n carries qxg:inherit="true"
InheritUnder(n) ==
    \E i \in 1..Len(n.kids) :
        IF IsLeafNode(n.kids[i]) THEN HasInherit(n.kids[i]) ELSE InheritUnder(n.kids[i])

RECURSIVE MisplacedInSequence(_)
\* an xs:sequence with qxg:inherit="true" on a child whose occurrence is not
\* (1,1), or somewhere below a child that is a choice or an all
MisplacedInSequence(n) ==
    \E i \in 1..Len(n.kids) :
        LET k == n.kids[i]
        IN  IF IsLeafNode(k) THEN HasInherit(k) /\ read_occurs(k) # <<1, 1>>
            ELSE IF k.tag = "xs:sequence" THEN MisplacedInSequence(k)
            ELSE InheritUnder(k)

\* a top-level definition with qxg:inherit="true" where C12 forbids it
MisplacedInherit(top) ==
    IF top.tag = "xs:element" THEN HasInherit(top)
    ELSE IF top.kids = <<>> THEN FALSE
    ELSE LET k == top.kids[1]
         IN  IF IsLeafNode(k) THEN HasInherit(k) /\ read_occurs(k) # <<1, 1>>
             ELSE IF k.tag = "xs:sequence" THEN MisplacedInSequence(k)
             ELSE InheritUnder(k)

\* the leaves held by a Choice or an All, at any depth
NestedLeaves(c) == IF c.kind \in {"choice", "all"} THEN Leaves(c) ELSE {}

\* C12: in every built IR a content leaf with inherit = true is the element
\* of a Sequence slot with bounds (1,1): no alternative of a Choice, no
\* element of an All and no root element inherits, and a definition with
\* qxg:inherit="true" on a leaf in one of those places, or in a slot with
\* other bounds, is rejected: nothing is built from it.
C12_InheritOnlyInSingleSlot ==
    /\ \A i \in 1..Len(root_elements) : ~root_elements[i].inherit
    /\ \A i \in 1..Len(type_defs) :
          \A k \in 1..Len(SlotsOf(type_defs[i])) :
              LET elem == SlotsOf(type_defs[i])[k]
              IN  /\ is_inherited(elem.element) => (elem.min = 1 /\ elem.max = 1)
                  /\ \A c \in NestedLeaves(elem.element) : ~c.inherit
    /\ \A i \in 1..Len(schema) :
          MisplacedInherit(schema[i]) =>
              /\ child_i <= i
              /\ type_defs = <<>> /\ root_elements = <<>>

\* sequence { i: I inherit [0..1] } is refused by read_type_content
C12_Witness ==
    /\ schema = <<ComplexTypeNode("T",
                     <<SequenceNode(<<InheritElementNode("i", "I", <<"0", "1">>)>>)>>)>>
    /\ MisplacedInherit(schema[1])
    /\ gpc = "failed"
    /\ gerr = "qxg:inherit is not allowed in the current scope"

\* the elements of the Alls held by the slots of a built content
ChoicesInAll(t) ==
    UNION {{SlotsOf(t)[k].element.elements[j].element :
               j \in 1..Len(SlotsOf(t)[k].element.elements)} :
           k \in {n \in 1..Len(SlotsOf(t)) : SlotsOf(t)[n].element.kind = "all"}}

\* the Choices of a built content: among the elements of its slots and the
\* elements of an All held by a slot
ChoicesIn(t) ==
    {c \in {SlotsOf(t)[k].element : k \in 1..Len(SlotsOf(t))} \cup ChoicesInAll(t) :
        c.kind = "choice"}

RECURSIVE ChoiceElementNames(_, _)
\* the names of the xs:element children of an xs:choice node from child i
\* on, those of a nested xs:choice in its place
ChoiceElementNames(n, i) ==
    IF i > Len(n.kids) THEN <<>>
    ELSE (IF n.kids[i].tag = "xs:choice" THEN ChoiceElementNames(n.kids[i], 1)
          ELSE <<n.kids[i].a["name"]>>)
         \o ChoiceElementNames(n, i + 1)

RECURSIVE BadChoiceUnder(_)
\* an xs:choice at or below n has a child that is no xs:element and no xs:choice
BadChoiceUnder(n) ==
    \/ /\ n.tag = "xs:choice"
       /\ \E i \in 1..Len(n.kids) : n.kids[i].tag \notin {"xs:element", "xs:choice"}
    \/ \E i \in 1..Len(n.kids) : BadChoiceUnder(n.kids[i])

\* C13: in every built IR each Choice holds element leaves only, those of a
\* nested xs:choice in the place of that child; an xs:choice with any other
\* child is rejected; an unordered Choice is the element of a slot read from
\* an xs:choice directly inside an xs:sequence; a Choice that is not
\* unordered has a non-empty member name.
C13_ChoiceShape ==
    \A i \in 1..Len(type_defs) :
        /\ \A c \in ChoicesIn(type_defs[i]) :
              /\ \A j \in 1..Len(c.choices) :
                    c.choices[j].kind = "type" /\ ~c.choices[j].is_group
              /\ ~c.unordered => c.member # ""
              /\ c.unordered =>
                    /\ c \notin ChoicesInAll(type_defs[i])
                    /\ schema[i].kids[1].tag = "xs:sequence"
        /\ ~BadChoiceUnder(schema[i])
        /\ schema[i].kids[1].tag = "xs:choice" =>
              LET c == SlotsOf(type_defs[i])[1].element
              IN  /\ c.kind = "choice"
                  /\ [j \in 1..Len(c.choices) |-> c.choices[j].name]
                        = ChoiceElementNames(schema[i].kids[1], 1)

\* choice member="c" { a | choice member="n" { b } | a } is built as the
\* Choice c of the alternatives a, b, a
C13_Witness ==
    /\ Len(type_defs) = 1
    /\ schema[1].kids[1].tag = "xs:choice"
    /\ Len(schema[1].kids[1].kids) = 3
    /\ schema[1].kids[1].kids[2].tag = "xs:choice"
    /\ Len(SlotsOf(type_defs[1])) = 1
    /\ SlotsOf(type_defs[1])[1].element.member = "c"
    /\ [j \in 1..3 |-> SlotsOf(type_defs[1])[1].element.choices[j].name] = <<"a", "b", "a">>

\* the Alls held by the slots of a built content
AllsIn(t) == {c \in {SlotsOf(t)[k].element : k \in 1..Len(SlotsOf(t))} : c.kind = "all"}

\* C14: in every built IR an All holds element leaves and Choices only,
\* never a Sequence or an All; built from an xs:all, it has one element per
\* child, each child an xs:element or xs:choice with occurrence (0,1) or
\* (1,1), and optional is true exactly for (0,1): an xs:all with any other
\* child or occurrence is not built.
C14_AllShape ==
    \A i \in 1..Len(type_defs) :
        /\ \A c \in AllsIn(type_defs[i]) :
              \A j \in 1..Len(c.elements) :
                  /\ c.elements[j].element.kind \in {"type", "choice"}
                  /\ c.elements[j].optional \in BOOLEAN
        /\ schema[i].kids[1].tag = "xs:all" =>
              LET kids == schema[i].kids[1].kids
                  c == SlotsOf(type_defs[i])[1].element
              IN  /\ c.kind = "all"
                  /\ Len(c.elements) = Len(kids)
                  /\ \A j \in 1..Len(kids) :
                        /\ kids[j].tag \in {"xs:element", "xs:choice"}
                        /\ read_occurs(kids[j]) \in {<<0, 1>>, <<1, 1>>}
                        /\ c.elements[j].optional <=> read_occurs(kids[j]) = <<0, 1>>

\* all { a: A, b: B [0..1] } is built with b optional
C14_Witness ==
    /\ Len(type_defs) = 1
    /\ schema[1].kids[1].tag = "xs:all"
    /\ AllsIn(type_defs[1]) # {}
    /\ LET c == SlotsOf(type_defs[1])[1].element
       IN  /\ Len(c.elements) = 2
           /\ c.elements[1].element.name = "a" /\ ~c.elements[1].optional
           /\ c.elements[2].element.name = "b" /\ c.elements[2].optional

RECURSIVE FlatKids(_, _)
\* the children of an xs:sequence node from child i on, those of a nested
\* xs:sequence in its place
FlatKids(n, i) ==
    IF i > Len(n.kids) THEN <<>>
    ELSE (IF n.kids[i].tag = "xs:sequence" THEN FlatKids(n.kids[i], 1)
          ELSE <<n.kids[i]>>)
         \o FlatKids(n, i + 1)

RECURSIVE BadNesting(_)
\* an xs:sequence with, at any depth of nested xs:sequence children, an
\* xs:sequence child whose occurrence is not (1,1), or an xs:all child
BadNesting(n) ==
    \E i \in 1..Len(n.kids) :
        \/ n.kids[i].tag = "xs:all"
        \/ /\ n.kids[i].tag = "xs:sequence"
           /\ read_occurs(n.kids[i]) # <<1, 1>> \/ BadNesting(n.kids[i])

\* the slot was read from the child: its bounds, and the element, group
\* reference or choice it holds
SlotReadFrom(elem, kid) ==
    /\ <<elem.min, elem.max>> = read_occurs(kid)
    /\ CASE kid.tag = "xs:element" ->
                elem.element.kind = "type" /\ ~elem.element.is_group
                /\ elem.element.name = kid.a["name"]
         [] kid.tag = "xs:group" ->
                elem.element.kind = "type" /\ elem.element.is_group
                /\ elem.element.type_key = kid.a["ref"]
         [] kid.tag = "xs:choice" -> elem.element.kind = "choice"
         [] OTHER -> FALSE

\* what C15 says of a content built from an xs:sequence
FlattenedInPlace(t, top) ==
    top.kids[1].tag = "xs:sequence" =>
        /\ ~BadNesting(top.kids[1])
        /\ Len(SlotsOf(t)) = Len(FlatKids(top.kids[1], 1))
        /\ \A k \in 1..Len(SlotsOf(t)) :
              SlotReadFrom(SlotsOf(t)[k], FlatKids(top.kids[1], 1)[k])

\* C15 as stated: in every built IR no slot of a Sequence holds a Sequence
\* or an All; a nested (1,1) xs:sequence is flattened in place, any other
\* nested xs:sequence and an xs:all inside an xs:sequence are rejected.
C15_SequenceFlatAsStated ==
    \A i \in 1..Len(type_defs) :
        /\ \A k \in 1..Len(SlotsOf(type_defs[i])) :
              SlotsOf(type_defs[i])[k].element.kind \notin {"sequence", "all"}
        /\ FlattenedInPlace(type_defs[i], schema[i])

\* C15: in every built IR no slot of a Sequence holds a Sequence, and a
\* slot holds an All only as the one (1,1) slot of the Sequence that wraps
\* an xs:all given as the single content of a complexType or group; a nested
\* (1,1) xs:sequence is flattened in place, its slots keeping their order
\* among the parent's, and a nested xs:sequence with other bounds or an
\* xs:all inside an xs:sequence is rejected.
C15_SequenceFlat ==
    \A i \in 1..Len(type_defs) :
        /\ \A k \in 1..Len(SlotsOf(type_defs[i])) :
              LET elem == SlotsOf(type_defs[i])[k]
              IN  /\ elem.element.kind # "sequence"
                  /\ elem.element.kind = "all" =>
                        /\ schema[i].kids[1].tag = "xs:all"
                        /\ Len(SlotsOf(type_defs[i])) = 1
                        /\ is_single(elem)
        /\ FlattenedInPlace(type_defs[i], schema[i])

\* sequence { e, sequence { x, y [0..1] } } is built as the slots e, x, y
C15_Witness ==
    /\ Len(type_defs) = 1
    /\ schema[1].kids[1].tag = "xs:sequence"
    /\ Len(schema[1].kids[1].kids) = 2
    /\ schema[1].kids[1].kids[2].tag = "xs:sequence"
    /\ [k \in 1..Len(SlotsOf(type_defs[1])) |-> SlotsOf(type_defs[1])[k].element.name]
          = <<"e", "x", "y">>
    /\ is_optional(SlotsOf(type_defs[1])[3])

\* the complexType node carries mixed="true", in whatever case
IsMixed(node) == "mixed" \in DOMAIN node.a /\ Lower(node.a["mixed"]) = "true"

\* the xs:extension of the complexType's wrapper child of that tag, when
\* the wrapper is consulted: xs:simpleContent first, else xs:complexContent
ExtensionOf(node, wrapper) ==
    LET w == node.kids[Find(node, wrapper)]
    IN  w.kids[Find(w, "xs:extension")]

HasSimpleContent(node) == Find(node, "xs:simpleContent") # 0

HasComplexContent(node) ==
    ~HasSimpleContent(node) /\ Find(node, "xs:complexContent") # 0

\* C16: read_type builds no MixedTypeDef with a base type: a complexType
\* with mixed="true" whose complexContent/extension has @base is rejected;
\* every complexType that is built is a SimpleTypeDef when it has
\* xs:simpleContent, else a MixedTypeDef when mixed="true", else a
\* ComplexTypeDef whose base type is the @base of its
\* complexContent/extension, or empty without xs:complexContent.
C16_NoMixedBase ==
    \A i \in 1..Len(type_defs) :
        LET t == type_defs[i]
            node == schema[i]
        IN  node.tag = "xs:complexType" =>
              /\ t.kind = "mixed" => t.baseType = ""
              /\ t.kind = IF HasSimpleContent(node) THEN "simple"
                          ELSE IF IsMixed(node) THEN "mixed" ELSE "complex"
              /\ (HasComplexContent(node) /\ IsMixed(node)) =>
                    "base" \notin DOMAIN ExtensionOf(node, "xs:complexContent").a
              /\ t.kind = "complex" =>
                    t.baseType = IF HasComplexContent(node)
                                 THEN ExtensionOf(node, "xs:complexContent").a["base"]
                                 ELSE ""

\* a complexType with mixed="True" and complexContent/extension base="Base"
\* is refused
C16_Witness ==
    /\ IsMixed(schema[1])
    /\ HasComplexContent(schema[1])
    /\ schema[1].a["mixed"] = "True"
    /\ Find(schema[1].kids[1], "xs:extension") # 0
    /\ "base" \in DOMAIN ExtensionOf(schema[1], "xs:complexContent").a
    /\ ExtensionOf(schema[1], "xs:complexContent").a["base"] = "Base"
    /\ gpc = "failed"
    /\ gerr = "xs:complexType definition that have a xs:base and are xs:mixed are not supported"
    /\ type_defs = <<>>

-----------------------------------------------------------------------------
(* Properties of the configuration and of the validation pre-pass (SpecConf) *)

\* the first qxg:config child of the root sets the attribute
Specifies(attr) ==
    /\ \E i \in 1..Len(schema) : schema[i].tag = "qxg:config"
    /\ attr \in DOMAIN schema[CHOOSE i \in 1..Len(schema) :
                                 /\ schema[i].tag = "qxg:config"
                                 /\ \A j \in 1..(i - 1) : schema[j].tag # "qxg:config"].a

\* C17: whenever the schema specifies no class name (it has no qxg:config
\* child, or one without a class attribute), the configuration's class name
\* is the title-cased base name of the input file; each other setting the
\* schema does not specify has its default: visibility protected, stdcompat
\* false, prefix and namespace empty.
C17_DefaultClassName ==
    (config.kind = "config" /\ gpc \in {"loop", "src", "done"}) =>
        /\ ~Specifies("class") =>
              config.className = Title(SplitExtRoot(BaseName(args.xsd)))
        /\ ~Specifies("visibility") => config.visibility = "protected"
        /\ ~Specifies("stdcompat") => config.stdcompat = FALSE
        /\ ~Specifies("prefix") => config.prefix = ""
        /\ ~Specifies("ns") => config.ns = ""

\* C18: without --verify no outcome of the pre-pass stops generation:
\* a validation module that is missing, a network failure and a document
\* that fails the meta-schema never end the run with their exception.
C18_PrePassNeverStops ==
    ~args.verify => gerr \notin {"ImportError", "URLError", "DocumentInvalid"}

-----------------------------------------------------------------------------
(* Properties of the emitted code of an unordered Choice (SpecBuild) *)

\* C19: for every Sequence slot holding an unordered Choice, whatever its
\* bounds, the emitted reader is the counter loop: it declares _total and
\* _max = max, appends each matched child to the list of the alternative it
\* matched while hasNext and _total < _max, stops at a child matching no
\* alternative, and raises the size error when _total is below min.
C19_UnorderedCounterLoop ==
    SrcWritten =>
        \A i \in 1..Len(type_defs) :
            \A k \in 1..Len(SlotsOf(type_defs[i])) :
                LET elem == SlotsOf(type_defs[i])[k]
                    code == files[run].src.types[i].content.slots[k]
                IN  IsUnorderedChoice(elem.element) =>
                        /\ code.branch = "unordered"
                        /\ code.undeclared = {}
                        /\ code.max = elem.max /\ code.min = elem.min
                        /\ code.writes =
                              {Write(elem.element.choices[j].member, "append") :
                                  j \in 1..Len(elem.element.choices)}

-----------------------------------------------------------------------------
(* Properties of the reader of a record that extends another (SpecExt) *)

\* the slots of the content of the record of that name
OwnSlots(name) ==
    IF ReaderOf(name).content.kind = "sequence" THEN ReaderOf(name).content.elements
    ELSE <<>>

\* k children are what the content of that record allows
CountAllowed(name, k) ==
    IF OwnSlots(name) = <<>> THEN k = 0
    ELSE /\ OwnSlots(name)[1].min <= k
         /\ OwnSlots(name)[1].max = -1 \/ k <= OwnSlots(name)[1].max

Repeat(name, k) == [i \in 1..k |-> name]

\* the children are B's content followed by D's own content
Conforms(d) ==
    \E k \in 0..Len(d) :
        /\ d = Repeat("x", k) \o Repeat("y", Len(d) - k)
        /\ CountAllowed("B", k)
        /\ CountAllowed("D", Len(d) - k)

ConformingPrefixes == {n \in 0..Len(doc) : Conforms(SubSeq(doc, 1, n))}

LongestConforming == CHOOSE n \in ConformingPrefixes : \A m \in ConformingPrefixes : m <= n

\* the number of leading x children of a conforming document
LeadingX == Cardinality({i \in 1..Len(doc) : doc[i] = "x"})

\* read_D has returned or thrown
ExtEnded == pc = "threw" \/ (pc = "done" /\ callers = <<>>)

\* the keepElementOpen read_D itself was called with
OuterKeepOpen ==
    IF callers = <<>> THEN keepElementOpen ELSE callers[Len(callers)].keepElementOpen

StoredCount(m) == IF m \in DOMAIN data THEN Len(data[m]) ELSE 0

\* C20: the reader of a record D that extends B first runs B's reader on the
\* same data with keepElementOpen = true, then sets hasNext to whether the
\* parser stands on a start-element, then drives D's own content: children
\* that are B's content followed by D's content are accepted, the x children
\* stored by B's reader and the y children by D's; B's reader never raises the
\* unexpected-child error of its last statement; and with keepElementOpen
\* false a child left over after D's content raises that error in D, at that
\* child.
C20_BaseThenOwn ==
    /\ (ExtEnded /\ Conforms(doc)) =>
          /\ pc = "done"
          /\ reading = "D"
          /\ StoredCount("x") = LeadingX
          /\ StoredCount("y") = Len(doc) - LeadingX
          /\ \A i \in 1..StoredCount("x") : data["x"][i].child = i
          /\ \A i \in 1..StoredCount("y") : data["y"][i].child = LeadingX + i
    /\ (pc = "threw" /\ callers # <<>>) => slot <= Len(Slots)
    /\ (pc = "slot" /\ callers = <<>>) => (hasNext <=> pos <= Len(doc))
    /\ (/\ ExtEnded
        /\ ~OuterKeepOpen
        /\ ConformingPrefixes # {}
        /\ ~Conforms(doc)) =>
          /\ pc = "threw"
          /\ err = "throwChild"
          /\ errPos = LongestConforming + 1
          /\ callers = <<>>
          /\ slot > Len(Slots)

\* B's reader stored a child, D's reader stored the next one, and D returned
C20_Witness ==
    /\ pc = "done"
    /\ callers = <<>>
    /\ reading = "D"
    /\ doc = <<"x", "y">>
    /\ StoredCount("x") = 1
    /\ StoredCount("y") = 1
    /\ data["y"][1].child = 2

-----------------------------------------------------------------------------
(* Properties of the reader of a mixed record (SpecMixed) *)

\* C21: the reader of a mixed record appends character and entity-reference
\* text until the first start or end tag; when it stopped at the end tag the
\* content member holds the accumulated text converted through convertData
\* for the content type; when it stopped at a start tag the content is
\* driven with hasNext = true and the content member stays absent.
C21_MixedText ==
    /\ (pc = "done" /\ doc = <<>>) =>
          /\ convertData(ReaderOf(reading).contentCppType, contentText).ok
          /\ data[ReaderOf(reading).contentMember] =
                <<convertData(ReaderOf(reading).contentCppType, contentText).value>>
    /\ doc # <<>> => data[ReaderOf(reading).contentMember] = <<>>
    /\ (pc = "slot" /\ pos = 1) => hasNext

-----------------------------------------------------------------------------
(* Properties of an optional slot (SpecRead) *)

\* the leaves of a slot's content whose tag is that of the child
MatchingLeaves(c, tag) ==
    IF c.kind = "type" THEN (IF c.name = tag THEN {c} ELSE {})
    ELSE IF c.kind = "choice"
    THEN {c.choices[i] : i \in {j \in 1..Len(c.choices) : c.choices[j].name = tag}}
    ELSE {}

\* the reader stands at the code of a (0,1) slot
AtOptionalSlot == pc = "slot" /\ slot <= Len(Slots) /\ SlotBranch(Cur) = "optional"

\* the code of an optional slot, given a child whose tag matches
OptionalTakes ==
    /\ \E leaf \in MatchingLeaves(Cur.element, doc[pos]) :
          data' = [data EXCEPT ![Cur.element.member] = <<Parsed(leaf, pos)>>]
    /\ pos' = pos + 1
    /\ hasNext' = (pos + 1 <= Len(doc))

\* C22: the code of an optional (0,1) slot: when hasNext is true and the tag
\* of the current child matches, the value read is moved into the member and
\* the reader advances to the next sibling; when hasNext is false or the tag
\* does not match, the member stays as it was (absent), position and hasNext
\* are unchanged; in both cases the slot raises no error and the next slot
\* follows.
C22_OptionalSlot ==
    [][AtOptionalSlot =>
          /\ pc' = "slot" /\ err' = "" /\ slot' = slot + 1
          /\ IF hasNext /\ MatchingLeaves(Cur.element, doc[pos]) # {}
             THEN OptionalTakes
             ELSE /\ data' = data /\ data[Cur.element.member] = <<>>
                  /\ pos' = pos
                  /\ hasNext' = hasNext]_vars

\* an optional first slot was passed over a child that does not match it
C22_Witness ==
    /\ pc = "slot"
    /\ slot = 2
    /\ is_optional(Slots[1])
    /\ hasNext
    /\ pos = 1
    /\ doc[1] = "ex"
    /\ data[Slots[1].element.member] = <<>>

-----------------------------------------------------------------------------
(* Properties of the reader of a group and of a group slot (SpecGroup) *)

\* the group slot of T, and the values its member holds
GroupSlot == ReaderOf("T").content.elements[1]

GroupValues == IF is_inherited(GroupSlot.element) THEN <<>> ELSE data[GroupSlot.element.member]

\* the x children before position n
XBefore(n) == Cardinality({i \in 1..(n - 1) : i <= Len(doc) /\ doc[i] = "x"})

\* T's reader is past its group slot and has not thrown
PastGroupSlot == reading = "T" /\ callers = <<>> /\ pc \in {"slot", "done"} /\ slot > 1

\* C23: a group reader receives hasNext from its caller, consumes only a
\* prefix of the remaining children of the enclosing element, and returns
\* true exactly when the parser still stands on a start-element it has not
\* consumed; the caller assigns the returned value to its hasNext; a slot
\* with an (n,n) group, n >= 1, runs exactly n iterations, each of which
\* reads into a fresh G and appends it, hasNext threaded through each.
C23_GroupReader ==
    /\ [](/\ (pc = "slot" /\ reading # "") => (hasNext <=> pos <= Len(doc))
          /\ pos <= Len(doc) + 1
          /\ PastGroupSlot =>
                /\ ~is_inherited(GroupSlot.element) => Len(GroupValues) = GroupSlot.max
                /\ \A i \in 1..Len(GroupValues) :
                      /\ GroupValues[i].type = "G"
                      /\ \A j \in 1..Len(GroupValues[i].fields["x"]) :
                            /\ GroupValues[i].fields["x"][j].child <= Len(doc)
                            /\ doc[GroupValues[i].fields["x"][j].child] = "x"
                            /\ XBefore(GroupValues[i].fields["x"][j].child) = i - 1)
    /\ [][/\ Len(callers') # Len(callers) =>
                /\ hasNext' = hasNext
                /\ pos' = pos
          /\ InGroup => pos' >= pos]_vars

\* the group slot (2,2) has run: two values, the second holding the second child
C23_Witness ==
    /\ PastGroupSlot
    /\ pc = "done"
    /\ ~is_inherited(GroupSlot.element)
    /\ GroupSlot.max = 2
    /\ Len(GroupValues) = 2
    /\ GroupValues[2].fields["x"] # <<>>
    /\ GroupValues[2].fields["x"][1].child = 2
    /\ ~hasNext

-----------------------------------------------------------------------------
(* Properties of the fields an All block fills (SpecRead) *)

\* C24: in an All block every alternative whose child was matched is read
\* into its own target, an optional one through the scratch value of its own
\* index, a required one directly: after a successful parse the field of
\* each alternative whose child the block consumed holds the value parsed from
\* that child.
C24_AllOwnTarget ==
    (pc = "done" /\ Len(Slots) = 1 /\ Slots[1].element.kind = "all") =>
        \A i \in 1..Len(Slots[1].element.elements) :
            \A p \in 1..(pos - 1) :
                doc[p] = Slots[1].element.elements[i].element.name =>
                    data[Slots[1].element.elements[i].element.member] =
                        <<Parsed(Slots[1].element.elements[i].element, p)>>

-----------------------------------------------------------------------------
(* Properties of the signatures of the emitted readers (SpecBuild) *)

\* C25: every record of kind ComplexType, MixedType or SimpleType gets a
\* reader read_T(reader, out, keepElementOpen = false), in the emitted
\* prototype and in the emitted definition, so that each of them can be
\* called as read_<base>(reader, data, true).
C25_ReaderSignature ==
    SrcWritten =>
        \A i \in 1..Len(type_defs) :
            type_defs[i].kind \in {"complex", "mixed", "simple"} =>
                /\ files[run].hdr.readers[i].method = "read_" \o type_defs[i].name
                /\ files[run].hdr.readers[i].sig.params =
                      <<Param("reader", ""), Param("data", ""),
                        Param("keepElementOpen", "false")>>
                /\ files[run].src.types[i].method = "read_" \o type_defs[i].name
                /\ files[run].src.types[i].sig.params =
                      <<"reader", "data", "keepElementOpen">>

-----------------------------------------------------------------------------
(* Properties of where a reader leaves the parser (SpecReaders) *)

\* the outermost reader has returned normally
Returned == pc = "done" /\ callers = <<>>

\* the reader that runs stands at its last statement with a child unread
AtEndWithChild ==
    /\ pc = "slot"
    /\ slot > Len(Slots)
    /\ ~InGroup
    /\ pos <= Len(doc)

\* C26: whenever the reader of a record called with keepElementOpen = false
\* returns normally, the parser stands on the end tag of the element the
\* reader was called on, every child having been consumed; a reader that
\* reaches its last statement with a child no slot consumed raises the
\* unexpected-child error instead of returning.
C26_EndsOnEndElement ==
    /\ []((Returned /\ ~keepElementOpen) => (pos = Len(doc) + 1 /\ tokens = <<>>))
    /\ [][(AtEndWithChild /\ ~keepElementOpen) =>
             (pc' = "threw" /\ err' = "throwChild" /\ errPos' = pos)]_vars

\* a reader called with keepElementOpen = false returned after three children
C26_Witness ==
    /\ Returned
    /\ ~keepElementOpen
    /\ Len(doc) = 3
    /\ pos = 4

-----------------------------------------------------------------------------
(* Properties of the two emitters as functions of the IR (SpecGen) *)

\* what the emitters read
EmitterInputs == <<type_defs, simple_types, root_elements, methods, config, xs_type_map>>

\* the build loop is over and an emitter runs next
Emitting == (gpc = "loop" /\ child_i > Len(schema)) \/ gpc = "src"

\* C27: the declaration emitter and the reader emitter leave the IR, the
\* configuration, the method list and the type map unchanged, so the text of
\* each is the same whether it is produced before or after the other: in
\* every state of a run the declarations written are those the declaration
\* emitter produces from the state as it is then, and likewise the
\* definitions.
C27_EmittersPure ==
    /\ [][Emitting => UNCHANGED EmitterInputs]_vars
    /\ [](/\ files[run].hdr # NoFile =>
                files[run].hdr = write_hdr(type_defs, simple_types, root_elements, methods)
          /\ files[run].src # NoFile =>
                files[run].src = write_src(type_defs, simple_types, root_elements))

\* both files of a run over a schema with a method and two records are written
C27_Witness ==
    /\ gpc = "done"
    /\ HdrWritten
    /\ SrcWritten
    /\ methods # <<>>
    /\ Len(type_defs) >= 2

-----------------------------------------------------------------------------
(* Properties of leaves of a built-in type (SpecIR) *)

\* the element leaves of the content of a definition
RECURSIVE ElementLeaves(_)
ElementLeaves(c) ==
    CASE c.kind = "type" -> IF c.is_group THEN {} ELSE {c}
      [] c.kind = "choice" -> {c.choices[i] : i \in 1..Len(c.choices)}
      [] c.kind \in {"all", "sequence"} ->
            UNION {ElementLeaves(c.elements[i].element) : i \in 1..Len(c.elements)}
      [] OTHER -> {}

\* the xs:element descendants of a schema node
RECURSIVE ElementNodesIn(_)
ElementNodesIn(node) ==
    (IF node.tag = "xs:element" THEN {node} ELSE {})
    \cup UNION {ElementNodesIn(node.kids[i]) : i \in 1..Len(node.kids)}

\* the leaves built from the definitions and root elements of the schema
BuiltLeaves ==
    UNION {ElementLeaves(type_defs[i].content) : i \in 1..Len(type_defs)}
    \cup {root_elements[i] : i \in 1..Len(root_elements)}

IsXsPrefixed(s) == s \in DOMAIN XsTypeMap /\ s # ""

\* C28: every xs:element leaf whose XSD type is a key of the built-in type
\* table is marked is_basic_type and its type_key is the mapped C++ type,
\* whether or not qxg:basicType="true" is set on it too; the field type and
\* the readContent<T> call never name an xs: type.
C28_BuiltinLeafMapped ==
    gpc \in {"src", "done"} =>
        /\ \A n \in UNION {ElementNodesIn(schema[i]) : i \in 1..Len(schema)} :
              ("type" \in DOMAIN n.a /\ n.a["type"] \in DOMAIN XsTypeMap) =>
                 \E leaf \in BuiltLeaves :
                    /\ leaf.name = n.a["name"]
                    /\ leaf.is_basic_type
                    /\ leaf.type_key = XsTypeMap[n.a["type"]]
        /\ \A leaf \in BuiltLeaves :
              /\ ~IsXsPrefixed(generate_type(leaf))
              /\ leaf.is_basic_type =>
                    read_method(leaf) \notin {"readContent<" \o t \o ">" : t \in DOMAIN XsTypeMap}

-----------------------------------------------------------------------------
(* Properties of a run that fails while the schema is read (SpecReject) *)

\* the run ended with an exception raised before the loop over the children
\* of the schema was over
BuildFailed == gpc = "failed" /\ child_i <= Len(schema)

NoOutput(r) == files[r].hdr = NoFile /\ files[r].src = NoFile

\* C29: every error of the builder is raised before either output file is
\* opened: a run that fails while the schema is read has created no file,
\* a file of the run exists only once the whole schema was read, and no step
\* taken while the schema is read changes any file.
C29_BuildErrorsBeforeOutput ==
    /\ [](BuildFailed => NoOutput(run))
    /\ [](~NoOutput(run) => child_i > Len(schema))
    /\ [][(gpc' = "failed" /\ child_i' <= Len(schema)) \/ (gpc = "loop" /\ child_i <= Len(schema))
             => UNCHANGED files]_vars

C29_Witness ==
    /\ BuildFailed
    /\ child_i > 1
    /\ gerr \in {"An xs:all within a xs:sequence is not supported",
                  "A xs:group must have qxg:member or qxg:inherit",
                  "qxg:inherit is not allowed in the current scope",
                  "qxg:method was not declared beforehand",
                  "XSD-Type is not supported as top level element"}
    /\ NoOutput(run)
    /\ type_defs # <<>>

-----------------------------------------------------------------------------
(* Properties of the emitters over what the builder accepted (SpecGen) *)

\* the loop over the children of the schema ended without an exception
BuildAccepted == gpc \in {"loop", "src"} /\ child_i > Len(schema)

\* C30: every IR the builder accepts can be emitted to completion: once the
\* whole schema was read without an error, the declaration emitter and the
\* reader emitter both finish over the definitions built, whichever content
\* node kinds the builder placed in them.
C30_AcceptedIREmits ==
    BuildAccepted =>
        /\ write_hdr(type_defs, simple_types, root_elements, methods).state = "written"
        /\ write_src(type_defs, simple_types, root_elements).state = "written"

=============================================================================
